---- MODULE Spec2Model ----
(***************************************************************************)
(* fmdtools: phase maps (analyze/phases.py) and simulation parameters      *)
(* (define/container/parameter.py).                                        *)
(*                                                                         *)
(* Times are counted in ticks of half a time unit, so that the float 0.5   *)
(* is the integer 1 and the float 1.0 is the integer 2 (DefaultDt).        *)
(* A phase dictionary {'a': [0, 1.5]} is the sequence << <<"a", 0, 3>> >>: *)
(* python dictionaries keep the order of insertion.                        *)
(***************************************************************************)
EXTENDS Integers, Sequences, FiniteSets, TLC

\* find_phase(self, time, dt=1.0): the float 1.0, in ticks
DefaultDt == 2
\* SimParam.phases = (('na', 0, 100),) and SimParam.times = (0, 100): the float 100
DefaultEnd == 100
\* largest start/end of a phase given to a constructor, in ticks
MaxT == 3
\* largest timestep given to a constructor, in ticks
MaxDt == 3

\* names of the phases, in the order they are given to the constructor
PhaseIds == <<"a", "b">>
\* names of the modephases, in the order they are given; the first one is
\* also the name of a phase, as in the maps from_hist builds
ModeIds == <<"a", "m">>

VARIABLES
    obj,         \* "none", or "PhaseMap" once PhaseMap.__init__ has run
    phases,      \* PhaseMap.phases: << <<name, start, end>>, ... >>
    modephases,  \* PhaseMap.modephases: << <<mode, {phase names}>>, ... >>
    dt,          \* PhaseMap.dt
    sp,          \* the SimParam: [state |-> "none" | "built" | "raised", ...]
    call,        \* the last method call: its name, arguments and outcome
    param,       \* a Parameter: [state |-> "none" | "built" | "raised", ...]
    pcopy,       \* what param.copy_with_vals(...) returned, or the same as none
    timer,       \* a Timer in use: [state |-> "none"], or its fields
    twin,        \* a Timer constructed when timer is reset
    sim,         \* the simulation of one scenario
    modeobj,     \* a Mode on its own: [state |-> "none"], or its fields
    batch        \* the runs a caller asks the engine for, and their results

vars == <<obj, phases, modephases, dt, sp, call, param, pcopy, timer, twin, sim, modeobj,
          batch>>

\* the fields of the PhaseMap and the SimParam
pmvars == <<obj, phases, modephases, dt, sp>>
\* the Parameter objects
paramvars == <<param, pcopy>>
\* the Timer objects
timervars == <<timer, twin>>
\* the simulation of a scenario
simvars == <<sim, modeobj, batch>>

----------------------------------------------------------------------------
(* python values                                                           *)

\* a call that returns v
Return(v) == [exc |-> "none", val |-> v]
\* a call that raises exception e
Raise(e) == [exc |-> e]

Min(S) == CHOOSE x \in S : \A y \in S : x <= y

\* dict.keys() of an ordered dictionary held as a sequence of items
Keys(d) == {d[i][1] : i \in DOMAIN d}
\* the position of key k in dictionary d
IndexOf(d, k) == CHOOSE i \in DOMAIN d : d[i][1] = k

\* sorted(set): the increasing sequence of the elements of S
RECURSIVE SortedSeq(_)
SortedSeq(S) == IF S = {} THEN <<>> ELSE <<Min(S)>> \o SortedSeq(S \ {Min(S)})

\* np.sort of a list of numbers
np_sort(s) == SortSeq(s, LAMBDA x, y : x < y)

\* {v[0]: [v[1], v[2]] for v in tup}: a later item of the same name replaces
\* the value and keeps the first item's place
DictOfTuple(tup) ==
    LET first == {i \in DOMAIN tup : \A j \in 1..(i-1) : tup[j][1] # tup[i][1]}
        last(i) == CHOOSE j \in DOMAIN tup :
                       /\ tup[j][1] = tup[i][1]
                       /\ \A k \in DOMAIN tup : tup[k][1] = tup[i][1] => k <= j
        order == SortedSeq(first)
    IN  [n \in 1..Len(order) |-> tup[last(order[n])]]

----------------------------------------------------------------------------
(* PhaseMap                                                                *)

\* the object the methods are called on
Self == [phases |-> phases, modephases |-> modephases, dt |-> dt]

\* find_phase with the extended end included: time <= times[1]+dt
find_phase_closed(self, time, d) ==
    LET hit == {i \in DOMAIN self.phases :
                   /\ self.phases[i][2] <= time
                   /\ time <= self.phases[i][3] + d}
    IN  IF hit = {} THEN Raise("Exception")
        ELSE Return(self.phases[Min(hit)][1])

\* PhaseMap.find_phase(time, dt=1.0): the first phase, in the dictionary's
\* order, with times[0] <= time < times[1]+dt.  dt is the parameter of the
\* method, not the field self.dt; every caller leaves it at its default
find_phase(self, time, d) ==
    LET hit == {i \in DOMAIN self.phases :
                   /\ self.phases[i][2] <= time
                   /\ time < self.phases[i][3] + d}
    IN  IF hit = {} THEN Raise("Exception")
        ELSE Return(self.phases[Min(hit)][1])

\* find_modephase that keeps looking and returns the last mode listing phase
find_modephase_last(self, phase) ==
    LET hit == {i \in DOMAIN self.modephases : phase \in self.modephases[i][2]}
    IN  IF hit = {} THEN Raise("Exception")
        ELSE Return(self.modephases[CHOOSE i \in hit : \A j \in hit : j <= i][1])

\* PhaseMap.find_modephase(phase): the first mode whose phases hold phase
find_modephase(self, phase) ==
    LET hit == {i \in DOMAIN self.modephases : phase \in self.modephases[i][2]}
    IN  IF hit = {} THEN Raise("Exception")
        ELSE Return(self.modephases[Min(hit)][1])

\* PhaseMap.find_base_phase(time)
find_base_phase(self, time) ==
    LET phase == find_phase(self, time, DefaultDt)
    IN  IF phase.exc # "none" THEN phase
        ELSE IF self.modephases # <<>> THEN find_modephase(self, phase.val)
        ELSE phase

\* the loop of calc_samples_in_phases with "= 1" in place of "+= 1"
RECURSIVE count_samples_assign(_, _, _, _)
count_samples_assign(self, times, i, phase_times) ==
    IF i > Len(times) THEN Return(phase_times)
    ELSE LET phase == find_phase(self, times[i], DefaultDt)
         IN  IF phase.exc # "none" THEN phase
             ELSE LET key == IF self.modephases # <<>>
                             THEN find_modephase(self, phase.val)
                             ELSE phase
                  IN  IF key.exc # "none" THEN key
                      ELSE count_samples_assign(self, times, i + 1,
                               [phase_times EXCEPT ![key.val] = 1])

\* PhaseMap.calc_samples_in_phases(*times): the loop over times, from the
\* i-th time on, with the counts so far
RECURSIVE count_samples(_, _, _, _)
count_samples(self, times, i, phase_times) ==
    IF i > Len(times) THEN Return(phase_times)
    ELSE LET phase == find_phase(self, times[i], DefaultDt)
         IN  IF phase.exc # "none" THEN phase
             ELSE LET key == IF self.modephases # <<>>
                             THEN find_modephase(self, phase.val)
                             ELSE phase
                  IN  IF key.exc # "none" THEN key
                      ELSE count_samples(self, times, i + 1,
                               [phase_times EXCEPT ![key.val] = @ + 1])

\* PhaseMap.calc_samples_in_phases(*times)
calc_samples_in_phases(self, times) ==
    LET keys == IF self.modephases # <<>> THEN Keys(self.modephases)
                ELSE Keys(self.phases)
    IN  count_samples(self, times, 1, [ph \in keys |-> 0])

\* calc_phase_time with the end excluded: end - start
calc_phase_time_exclusive(self, phase) ==
    IF phase \notin Keys(self.phases) THEN Raise("KeyError")
    ELSE LET phasetimes == self.phases[IndexOf(self.phases, phase)]
         IN  Return(phasetimes[3] - phasetimes[2])

\* PhaseMap.calc_phase_time(phase)
calc_phase_time(self, phase) ==
    IF phase \notin Keys(self.phases) THEN Raise("KeyError")
    ELSE LET phasetimes == self.phases[IndexOf(self.phases, phase)]
         IN  Return(phasetimes[3] - phasetimes[2] + self.dt)

\* sum([self.calc_phase_time(mode_phase) for mode_phase in mode_phases])
RECURSIVE sum_phase_times(_, _)
sum_phase_times(self, mode_phases) ==
    IF mode_phases = {} THEN 0
    ELSE LET ph == CHOOSE x \in mode_phases : TRUE
         IN  calc_phase_time(self, ph).val + sum_phase_times(self, mode_phases \ {ph})

\* PhaseMap.calc_modephase_time(modephase)
calc_modephase_time(self, modephase) ==
    IF modephase \notin Keys(self.modephases) THEN Raise("KeyError")
    ELSE LET mode_phases == self.modephases[IndexOf(self.modephases, modephase)][2]
         IN  IF \E ph \in mode_phases : calc_phase_time(self, ph).exc # "none"
             THEN Raise("KeyError")
             ELSE Return(sum_phase_times(self, mode_phases))

\* PhaseMap.calc_scen_exposure_time(time)
calc_scen_exposure_time(self, time) ==
    LET phase == find_phase(self, time, DefaultDt)
    IN  IF phase.exc # "none" THEN phase
        ELSE IF self.modephases # <<>>
             THEN LET mode == find_modephase(self, phase.val)
                  IN  IF mode.exc # "none" THEN mode
                      ELSE calc_modephase_time(self, mode.val)
             ELSE calc_phase_time(self, phase.val)

\* gen_interval_times(interval, dt) = np.arange(interval[0], interval[-1] + dt, dt):
\* the values interval[0] + k*dt below interval[-1] + dt
gen_interval_times(interval, d) ==
    LET span == interval[Len(interval)] + d - interval[1]
        n == IF span <= 0 THEN 0 ELSE (span + d - 1) \div d
    IN  [k \in 1..n |-> interval[1] + (k - 1) * d]

\* get_phase_times that skips the phases of a modephase that are no keys of
\* phases: [self.phases[ph] for ph in phases if ph in self.phases]
get_phase_times_known(self, phase) ==
    LET isMode == phase \in Keys(self.modephases)
        names == IF isMode
                 THEN self.modephases[IndexOf(self.modephases, phase)][2]
                          \cap Keys(self.phases)
                 ELSE {phase}
        interval(ph) == LET t == self.phases[IndexOf(self.phases, ph)]
                        IN  <<t[2], t[3]>>
        int_times(ph) == gen_interval_times(interval(ph), self.dt)
    IN  IF ~isMode /\ phase \notin Keys(self.phases) THEN Raise("UnboundLocalError")
        ELSE IF names = {} THEN Raise("ValueError")
        ELSE Return(SortedSeq(UNION {{int_times(ph)[k] : k \in DOMAIN int_times(ph)} :
                                       ph \in names}))

\* PhaseMap.get_phase_times(phase)
get_phase_times(self, phase) ==
    LET isMode == phase \in Keys(self.modephases)
        names == IF isMode
                 THEN self.modephases[IndexOf(self.modephases, phase)][2]
                 ELSE {phase}
        interval(ph) == LET t == self.phases[IndexOf(self.phases, ph)]
                        IN  <<t[2], t[3]>>
        int_times(ph) == gen_interval_times(interval(ph), self.dt)
    IN  IF ~isMode /\ phase \notin Keys(self.phases) THEN Raise("UnboundLocalError")
        ELSE IF \E ph \in names : ph \notin Keys(self.phases) THEN Raise("KeyError")
        ELSE IF names = {} THEN Raise("ValueError")
        ELSE Return(SortedSeq(UNION {{int_times(ph)[k] : k \in DOMAIN int_times(ph)} :
                                       ph \in names}))

----------------------------------------------------------------------------
(* SimParam                                                                *)

\* a float number of time units, in ticks
Ticks(x) == x * DefaultDt

\* find_any_phase_overlap without the two np.sort: the starts and ends are
\* compared in the order the phases are given
find_any_phase_overlap_unsorted(sp_phases) ==
    LET phase_dict == DictOfTuple(sp_phases)
        int_low == [i \in DOMAIN phase_dict |-> phase_dict[i][2]]
        int_high == [i \in DOMAIN phase_dict |-> phase_dict[i][3]]
    IN  \E i \in 1..(Len(int_low) - 1) : int_low[i + 1] <= int_high[i]

\* SimParam.find_any_phase_overlap(): TRUE when it raises
find_any_phase_overlap(sp_phases) ==
    LET phase_dict == DictOfTuple(sp_phases)
        int_low == np_sort([i \in DOMAIN phase_dict |-> phase_dict[i][2]])
        int_high == np_sort([i \in DOMAIN phase_dict |-> phase_dict[i][3]])
    IN  \E i \in 1..(Len(int_low) - 1) : int_low[i + 1] <= int_high[i]

\* init_phases with the default phase ending at the first of times
init_phases_first(kwargs) ==
    IF kwargs.has_times /\ ~kwargs.has_phases
    THEN << <<"na", 0, kwargs.times[1]>> >>
    ELSE IF kwargs.has_phases THEN kwargs.phases
    ELSE << <<"na", 0, Ticks(DefaultEnd)>> >>

\* the phases SimParam.__init__ passes on: built from the last of times when
\* times are given and phases are not, else the ones given, else the default
init_phases(kwargs) ==
    IF kwargs.has_times /\ ~kwargs.has_phases
    THEN << <<"na", 0, kwargs.times[Len(kwargs.times)]>> >>
    ELSE IF kwargs.has_phases THEN kwargs.phases
    ELSE << <<"na", 0, Ticks(DefaultEnd)>> >>

\* SimParam(**kwargs)
SimParam(kwargs) ==
    LET phs == init_phases(kwargs)
        fields == [phases |-> phs,
                   times |-> IF kwargs.has_times THEN kwargs.times
                             ELSE <<0, Ticks(DefaultEnd)>>,
                   dt |-> kwargs.dt,
                   kwargs |-> kwargs]
    IN  IF find_any_phase_overlap(phs)
        THEN [state |-> "raised"] @@ fields
        ELSE [state |-> "built"] @@ fields

----------------------------------------------------------------------------
(* construction                                                            *)

\* the intervals [start, end] a constructor is given
Intervals == {<<lo, hi>> \in (0..MaxT) \X (0..MaxT) : lo <= hi}

\* phases given to a constructor: 0, 1 or 2 phases, named in order
PhaseArgs ==
    {<<>>}
    \cup {<< <<PhaseIds[1], i[1], i[2]>> >> : i \in Intervals}
    \cup {<< <<PhaseIds[1], i[1], i[2]>>, <<PhaseIds[2], j[1], j[2]>> >> :
             i \in Intervals, j \in Intervals}

\* modephases given to PhaseMap: 0, 1 or 2 modes, each a set of phase names
PhaseSets == SUBSET {PhaseIds[1], PhaseIds[2]}
ModephaseArgs ==
    {<<>>}
    \cup {<< <<ModeIds[1], s>> >> : s \in PhaseSets}
    \cup {<< <<ModeIds[1], s>>, <<ModeIds[2], t>> >> : s \in PhaseSets, t \in PhaseSets}

DtArgs == 1..MaxDt

\* no method called yet: the methods change no field of the PhaseMap, so one
\* call on each constructed object shows every outcome
NoCall == [op |-> "none"]
NoSimParam == [state |-> "none"]
NoParameter == [state |-> "none"]
NoTimer == [state |-> "none"]
NoSim == [state |-> "none"]
NoMode == [state |-> "none"]
NoBatch == [state |-> "none"]

Init ==
    /\ obj = "none"
    /\ phases = <<>>
    /\ modephases = <<>>
    /\ dt = DefaultDt
    /\ sp = NoSimParam
    /\ call = NoCall
    /\ param = NoParameter
    /\ pcopy = NoParameter
    /\ timer = NoTimer
    /\ twin = NoTimer
    /\ sim = NoSim
    /\ modeobj = NoMode
    /\ batch = NoBatch

\* PhaseMap(phases, modephases, dt)
PhaseMap_init ==
    /\ obj = "none"
    /\ sp.state = "none"
    /\ \E phs \in PhaseArgs, mphs \in ModephaseArgs, d \in DtArgs :
           /\ phases' = phs
           /\ modephases' = mphs
           /\ dt' = d
    /\ obj' = "PhaseMap"
    /\ UNCHANGED <<sp, call, paramvars, timervars, simvars>>

\* times given to SimParam: the first and the last of the tuple
TimesArgs == {<<t0, t1>> \in (0..1) \X (0..MaxT) : t0 <= t1}

\* the keyword arguments SimParam is built with
SimParamArgs ==
    {[has_phases |-> FALSE, phases |-> <<>>, has_times |-> FALSE, times |-> <<>>,
      dt |-> d] : d \in DtArgs}
    \cup {[has_phases |-> TRUE, phases |-> phs, has_times |-> FALSE, times |-> <<>>,
           dt |-> d] : phs \in PhaseArgs, d \in DtArgs}
    \cup {[has_phases |-> FALSE, phases |-> <<>>, has_times |-> TRUE, times |-> ts,
           dt |-> d] : ts \in TimesArgs, d \in DtArgs}
    \cup {[has_phases |-> TRUE, phases |-> phs, has_times |-> TRUE, times |-> ts,
           dt |-> d] : phs \in PhaseArgs, ts \in TimesArgs, d \in DtArgs}

\* sp = SimParam(**kwargs)
SimParam_init ==
    /\ obj = "none"
    /\ sp.state = "none"
    /\ \E kwargs \in SimParamArgs : sp' = SimParam(kwargs)
    /\ UNCHANGED <<obj, phases, modephases, dt, call, paramvars, timervars, simvars>>

\* PhaseMap(sp.phases), as phaseplot builds the model's phase map: the tuple
\* of phases becomes a dictionary, modephases and dt keep their defaults
PhaseMap_from_SimParam ==
    /\ obj = "none"
    /\ sp.state = "built"
    /\ obj' = "PhaseMap"
    /\ phases' = DictOfTuple(sp.phases)
    /\ modephases' = <<>>
    /\ dt' = DefaultDt
    /\ UNCHANGED <<sp, call, paramvars, timervars, simvars>>

\* pm.find_phase(time)
FindPhase(time) ==
    /\ obj = "PhaseMap"
    /\ call = NoCall
    /\ call' = [op |-> "find_phase", time |-> time, res |-> find_phase(Self, time, DefaultDt)]
    /\ UNCHANGED <<pmvars, paramvars, timervars, simvars>>

\* the times a method is called with
TimeArgs == 0..(MaxT + DefaultDt)
\* the tuples of times calc_samples_in_phases is called with
SampleArgs == {<<>>} \cup {<<t>> : t \in TimeArgs}
              \cup {<<t, u>> : t \in TimeArgs, u \in TimeArgs}
PhaseNameArgs == {PhaseIds[1], PhaseIds[2]}
ModeNameArgs == {ModeIds[1], ModeIds[2]}

\* pm.find_modephase(phase)
FindModephase(phase) ==
    /\ obj = "PhaseMap"
    /\ call = NoCall
    /\ call' = [op |-> "find_modephase", phase |-> phase,
                res |-> find_modephase(Self, phase)]
    /\ UNCHANGED <<pmvars, paramvars, timervars, simvars>>

\* pm.calc_samples_in_phases(*times)
CalcSamplesInPhases(times) ==
    /\ obj = "PhaseMap"
    /\ call = NoCall
    /\ call' = [op |-> "calc_samples_in_phases", times |-> times,
                res |-> calc_samples_in_phases(Self, times)]
    /\ UNCHANGED <<pmvars, paramvars, timervars, simvars>>

\* pm.calc_phase_time(phase)
CalcPhaseTime(phase) ==
    /\ obj = "PhaseMap"
    /\ call = NoCall
    /\ call' = [op |-> "calc_phase_time", phase |-> phase,
                res |-> calc_phase_time(Self, phase)]
    /\ UNCHANGED <<pmvars, paramvars, timervars, simvars>>

\* pm.calc_modephase_time(modephase)
CalcModephaseTime(modephase) ==
    /\ obj = "PhaseMap"
    /\ call = NoCall
    /\ call' = [op |-> "calc_modephase_time", modephase |-> modephase,
                res |-> calc_modephase_time(Self, modephase)]
    /\ UNCHANGED <<pmvars, paramvars, timervars, simvars>>

\* pm.calc_scen_exposure_time(time)
CalcScenExposureTime(time) ==
    /\ obj = "PhaseMap"
    /\ call = NoCall
    /\ call' = [op |-> "calc_scen_exposure_time", time |-> time,
                res |-> calc_scen_exposure_time(Self, time)]
    /\ UNCHANGED <<pmvars, paramvars, timervars, simvars>>

\* pm.get_phase_times(phase)
GetPhaseTimes(phase) ==
    /\ obj = "PhaseMap"
    /\ call = NoCall
    /\ call' = [op |-> "get_phase_times", phase |-> phase,
                res |-> get_phase_times(Self, phase)]
    /\ UNCHANGED <<pmvars, paramvars, timervars, simvars>>

Next ==
    \/ PhaseMap_init
    \/ SimParam_init
    \/ PhaseMap_from_SimParam
    \/ \E t \in TimeArgs : FindPhase(t)
    \/ \E ph \in PhaseNameArgs : FindModephase(ph)
    \/ \E ts \in SampleArgs : CalcSamplesInPhases(ts)
    \/ \E ph \in PhaseNameArgs : CalcPhaseTime(ph)
    \/ \E m \in ModeNameArgs : CalcModephaseTime(m)
    \/ \E t \in TimeArgs : CalcScenExposureTime(t)
    \/ \E n \in PhaseNameArgs \cup ModeNameArgs : GetPhaseTimes(n)

Spec == Init /\ [][Next]_vars

----------------------------------------------------------------------------
(* Properties of find_phase, construction and the modephase lookups        *)

\* time t lies in the i-th phase's interval, extended at its end by d
InExtended(i, t, d) == phases[i][2] <= t /\ t < phases[i][3] + d
\* time t lies in the i-th phase's declared interval [start, end]
InDeclared(i, t) == phases[i][2] <= t /\ t <= phases[i][3]
\* two intervals share a time point
Overlap(x, y) == x[2] <= y[3] /\ y[2] <= x[3]
NoOverlap(phs) == \A i, j \in DOMAIN phs : i # j => ~Overlap(phs[i], phs[j])
\* the phases listed under the j-th modephase
PhasesOf(j) == modephases[j][2]
Returned == call.res.exc = "none"

\* C1: find_phase(t) returns a phase p only when t lies in p's interval
\* [start_p, end_p] extended at its end by the phase map's own timestep dt,
\* and it raises when no phase's extended interval contains t.
C1_FindPhaseUsesMapDt ==
    call.op = "find_phase" =>
        /\ Returned =>
               \E i \in DOMAIN phases :
                   phases[i][1] = call.res.val /\ InExtended(i, call.time, dt)
        /\ (\A i \in DOMAIN phases : ~InExtended(i, call.time, dt)) => ~Returned

\* C2 as stated: find_phase fails for every time strictly outside all
\* declared intervals [start, end] (before, after, or in a gap); stated here
\* for the phase maps whose timestep is the default 1.0.
C2_RaisesOutsideDeclared ==
    (/\ call.op = "find_phase"
     /\ dt = DefaultDt
     /\ \A i \in DOMAIN phases : ~InDeclared(i, call.time))
        => ~Returned

\* C2 as amended: find_phase fails, and returns no phase, exactly when the
\* time is outside every interval extended at its end by find_phase's dt of
\* 1.0: time < start or time >= end + 1.0 for every phase.
C2_RaisesOutsideExtended ==
    call.op = "find_phase" =>
        (~Returned <=> \A i \in DOMAIN phases : ~InExtended(i, call.time, DefaultDt))

\* find_phase was called with a time in a gap between two phases and raised
C2_Witness ==
    /\ call.op = "find_phase"
    /\ ~Returned
    /\ Len(phases) = 2
    /\ phases[1][3] + DefaultDt <= call.time
    /\ call.time < phases[2][2]

\* C3: no constructed phase map, a PhaseMap or the phases of a SimParam, has
\* two intervals that overlap: construction fails instead.
C3_NoOverlapOnceConstructed ==
    /\ obj = "PhaseMap" => NoOverlap(phases)
    /\ sp.state = "built" => NoOverlap(sp.phases)

\* the simulation times of a SimParam: times[0], times[0]+dt, ... up to times[-1]
SimTimes == {t \in sp.times[1]..sp.times[Len(sp.times)] :
                (t - sp.times[1]) % sp.dt = 0}
\* find_phase on the phase map of the SimParam's phases maps time t to a phase
Mapped(t) ==
    find_phase([phases |-> DictOfTuple(sp.phases), modephases |-> <<>>,
                dt |-> DefaultDt], t, DefaultDt).exc = "none"

\* C4 as stated: once a SimParam is constructed, find_phase maps every
\* simulation time to a phase (construction fails otherwise); stated here for
\* the SimParams given both times and at least one phase.
C4_HorizonCovered ==
    (sp.state = "built" /\ sp.kwargs.has_phases /\ sp.kwargs.has_times
        /\ sp.phases # <<>>)
        => \A t \in SimTimes : Mapped(t)

\* C4 as amended: a SimParam constructed without explicit phases (times[0] >= 0)
\* is never refused and its default phase ('na', 0, times[-1]) maps every
\* simulation time; explicit phases are only checked for overlap.
C4_DefaultPhaseCoversHorizon ==
    (sp.state # "none" /\ ~sp.kwargs.has_phases) =>
        /\ sp.state = "built"
        /\ \A t \in SimTimes : Mapped(t)

\* a SimParam was built from times alone, with an end after its start
C4_Witness ==
    /\ sp.state = "built"
    /\ sp.kwargs.has_times
    /\ ~sp.kwargs.has_phases
    /\ sp.times = <<1, MaxT>>
    /\ Cardinality(SimTimes) > 1

\* C5 as stated: in every constructed PhaseMap each phase listed under a
\* modephase is a key of phases.
C5_ModephasesListKnownPhases ==
    obj = "PhaseMap" =>
        \A j \in DOMAIN modephases : PhasesOf(j) \subseteq Keys(phases)

\* C5 as amended: the constructor does not check modephases; get_phase_times
\* and calc_modephase_time on a modephase raise KeyError exactly when a phase
\* listed under that modephase is not a key of phases.
C5_MissingPhaseIsKeyError ==
    /\ (call.op = "get_phase_times" /\ call.phase \in Keys(modephases)) =>
           (call.res.exc = "KeyError" <=>
               ~(PhasesOf(IndexOf(modephases, call.phase)) \subseteq Keys(phases)))
    /\ (call.op = "calc_modephase_time" /\ call.modephase \in Keys(modephases)) =>
           (call.res.exc = "KeyError" <=>
               ~(PhasesOf(IndexOf(modephases, call.modephase)) \subseteq Keys(phases)))

\* get_phase_times was called on a modephase that lists an unknown phase
C5_Witness ==
    /\ call.op = "get_phase_times"
    /\ call.phase \in Keys(modephases)
    /\ call.res.exc = "KeyError"
    /\ \E ph \in PhasesOf(IndexOf(modephases, call.phase)) : ph \notin Keys(phases)

----------------------------------------------------------------------------
(* Properties of the counts, durations and sample times                    *)

\* the keys of the mapping calc_samples_in_phases returns
SampleKeys == IF modephases # <<>> THEN Keys(modephases) ELSE Keys(phases)
\* time t falls in phase ph: in its interval, the end extended as find_phase does
FallsInPhase(t, ph) ==
    ph \in Keys(phases) /\ InExtended(IndexOf(phases, ph), t, DefaultDt)
\* time t falls in key k: the phase k, or a phase of the modephase k
FallsIn(t, k) ==
    IF modephases # <<>>
    THEN \E ph \in PhasesOf(IndexOf(modephases, k)) : FallsInPhase(t, ph)
    ELSE FallsInPhase(t, k)
\* the first phase, in the order of the dictionary, that time t falls in
FirstPhase(t) ==
    phases[Min({i \in DOMAIN phases : InExtended(i, t, DefaultDt)})][1]
\* the first modephase, in the order of the dictionary, that lists phase ph
FirstMode(ph) ==
    modephases[Min({j \in DOMAIN modephases : ph \in PhasesOf(j)})][1]
\* time t is counted: it falls in a phase, and with modephases defined the
\* first such phase is listed under a modephase
Counted(t) ==
    /\ \E i \in DOMAIN phases : InExtended(i, t, DefaultDt)
    /\ modephases # <<>> => \E j \in DOMAIN modephases : FirstPhase(t) \in PhasesOf(j)
\* the key time t is counted under
KeyOf(t) == IF modephases # <<>> THEN FirstMode(FirstPhase(t)) ELSE FirstPhase(t)

RECURSIVE SumOfCounts(_, _)
SumOfCounts(f, S) ==
    IF S = {} THEN 0
    ELSE LET k == CHOOSE x \in S : TRUE IN f[k] + SumOfCounts(f, S \ {k})

\* C6 as stated: for times that each fall in some phase, calc_samples_in_phases
\* returns one key per phase (per modephase when modephases are defined) whose
\* value is the number of the given times that fall in it; the counts sum to
\* the number of times.  Stated here for times that each fall in one phase only.
C6_CountsTimesFallingInKey ==
    (/\ call.op = "calc_samples_in_phases"
     /\ \A n \in DOMAIN call.times :
            Cardinality({ph \in Keys(phases) : FallsInPhase(call.times[n], ph)}) = 1)
        => /\ Returned
           /\ DOMAIN call.res.val = SampleKeys
           /\ \A k \in SampleKeys :
                  call.res.val[k] =
                      Cardinality({n \in DOMAIN call.times : FallsIn(call.times[n], k)})
           /\ SumOfCounts(call.res.val, SampleKeys) = Len(call.times)

\* C6 as amended: calc_samples_in_phases returns exactly when every time falls
\* in some phase and, with modephases defined, the first such phase is listed
\* under a modephase; each time is then counted once, under the first phase
\* in declaration order whose interval (end extended by 1.0) holds it, or
\* under the first modephase listing that phase; there is one key per phase
\* (per modephase), unused keys keep 0 and the counts sum to the number of times.
C6_CountsEachTimeOnce ==
    call.op = "calc_samples_in_phases" =>
        /\ Returned <=> \A n \in DOMAIN call.times : Counted(call.times[n])
        /\ Returned =>
               /\ DOMAIN call.res.val = SampleKeys
               /\ \A k \in SampleKeys :
                      call.res.val[k] =
                          Cardinality({n \in DOMAIN call.times : KeyOf(call.times[n]) = k})
               /\ SumOfCounts(call.res.val, SampleKeys) = Len(call.times)

\* two times were counted under one modephase while another modephase kept 0
C6_Witness ==
    /\ call.op = "calc_samples_in_phases"
    /\ Returned
    /\ Len(call.times) = 2
    /\ call.times[1] # call.times[2]
    /\ Len(phases) = 2
    /\ Len(modephases) = 2
    /\ PhasesOf(1) # {} /\ PhasesOf(2) # {}
    /\ call.res.val[ModeIds[1]] = 0
    /\ call.res.val[ModeIds[2]] = 2

\* C7: calc_phase_time(p) is end_p - start_p + dt, with dt the timestep of
\* the PhaseMap: both endpoints are counted.
C7_PhaseTimeCountsBothEnds ==
    (call.op = "calc_phase_time" /\ call.phase \in Keys(phases)) =>
        /\ Returned
        /\ \A i \in DOMAIN phases :
               phases[i][1] = call.phase =>
                   call.res.val = phases[i][3] - phases[i][2] + dt

\* calc_phase_time of a phase [0, 1.0] with dt = 1.0 returned 2.0
C7_Witness ==
    /\ call.op = "calc_phase_time"
    /\ Returned
    /\ dt = DefaultDt
    /\ \E i \in DOMAIN phases :
           /\ phases[i] = <<call.phase, 0, Ticks(1)>>
           /\ call.res.val = Ticks(2)

\* the duration of the i-th phase, both ends counted
Duration(i) == phases[i][3] - phases[i][2] + dt
RECURSIVE SumOfDurations(_)
SumOfDurations(I) ==
    IF I = {} THEN 0
    ELSE LET i == CHOOSE x \in I : TRUE IN Duration(i) + SumOfDurations(I \ {i})

\* C8: calc_scen_exposure_time(t) is the duration of the phase containing t
\* when no modephases are defined, and otherwise the sum of the durations of
\* the phases of the modephase containing that phase.  Stated for the times
\* that exactly one phase contains (its interval extended by the map's dt)
\* in a map of intervals that do not overlap and, with modephases, for a phase
\* listed under exactly one modephase whose phases are all keys of phases.
C8_ExposureOfContainingPhase ==
    LET holds == {i \in DOMAIN phases : InExtended(i, call.time, dt)}
        p == CHOOSE i \in holds : TRUE
        modes == {j \in DOMAIN modephases : phases[p][1] \in PhasesOf(j)}
        m == CHOOSE j \in modes : TRUE
    IN  (/\ call.op = "calc_scen_exposure_time"
         /\ NoOverlap(phases)
         /\ Cardinality(holds) = 1) =>
            IF modephases = <<>>
            THEN Returned /\ call.res.val = Duration(p)
            ELSE (Cardinality(modes) = 1 /\ PhasesOf(m) \subseteq Keys(phases)) =>
                     /\ Returned
                     /\ call.res.val =
                            SumOfDurations({i \in DOMAIN phases : phases[i][1] \in PhasesOf(m)})

\* the instants start, start+dt, ... up to end of the i-th phase
Instants(i) == {t \in phases[i][2]..phases[i][3] : (t - phases[i][2]) % dt = 0}

\* C9: get_phase_times(name) is the strictly increasing list of the instants
\* start, start+dt, ... up to end of the phase, and for a modephase of the
\* union of these instants over its phases.
C9_InstantsUpToEnd ==
    (call.op = "get_phase_times" /\ Returned) =>
        LET names == IF call.phase \in Keys(modephases)
                     THEN PhasesOf(IndexOf(modephases, call.phase))
                     ELSE {call.phase}
            times == call.res.val
        IN  /\ \A k \in 1..(Len(times) - 1) : times[k] < times[k + 1]
            /\ {times[k] : k \in DOMAIN times} =
                   UNION {Instants(i) : i \in {j \in DOMAIN phases : phases[j][1] \in names}}

\* the modephases that list the phase find_modephase was called with
Listing == {j \in DOMAIN modephases : call.phase \in PhasesOf(j)}

\* C10 as stated: find_modephase(phase) returns a modephase listing the phase,
\* the only one that lists it, and raises when no modephase lists it.
C10_ReturnsTheOnlyModephase ==
    call.op = "find_modephase" =>
        /\ Returned =>
               \A j \in DOMAIN modephases :
                   (modephases[j][1] = call.res.val) <=> (j \in Listing)
        /\ Listing = {} => ~Returned

\* C10 as amended: find_modephase(phase) raises exactly when no modephase lists
\* the phase, and otherwise returns the first modephase, in declaration order,
\* that lists it; nothing makes modephases a partition, so it is the only one
\* just when the modephases are disjoint.
C10_ReturnsFirstModephase ==
    call.op = "find_modephase" =>
        /\ ~Returned <=> Listing = {}
        /\ Returned => call.res.val = modephases[Min(Listing)][1]

\* find_modephase returned the first of two modephases that list the phase
C10_Witness ==
    /\ call.op = "find_modephase"
    /\ Returned
    /\ Cardinality(Listing) = 2
    /\ call.res.val = ModeIds[1]

----------------------------------------------------------------------------
(* find_overlap_n (analyze/phases.py)                                      *)

\* the intervals find_overlap_n is given: one range [start, end], or a list
\* of such ranges; kind tells which, as type(interval[0]) does in python
RangeArg(r) == [kind |-> "range", range |-> r]
ListArg(rs) == [kind |-> "list", list |-> rs]

\* {*np.arange(i[0], i[-1]+1)}: the instants from i[0] in steps of 1.0 that
\* are below i[-1] + 1.0
arange_unit(i) ==
    {t \in i[1]..(i[Len(i)] + DefaultDt - 1) : (t - i[1]) % DefaultDt = 0}

\* interval = [interval] when its first element is a number
as_list(interval) ==
    IF interval.kind = "range" THEN <<interval.range>> ELSE interval.list

\* possible_times.update(*[{*np.arange(i[0], i[-1]+1)} for i in interval])
possible_times(interval) ==
    UNION {arange_unit(as_list(interval)[k]) : k \in DOMAIN as_list(interval)}

\* interval[0] of an empty list raises IndexError
raises_IndexError(intervals) ==
    \E k \in DOMAIN intervals :
        intervals[k].kind = "list" /\ intervals[k].list = <<>>

\* joined_times after the loop: the times of the first interval, intersected
\* with the times of every later one
joined_times(intervals) ==
    IF intervals = <<>> THEN {}
    ELSE {t \in possible_times(intervals[1]) :
             \A k \in DOMAIN intervals : t \in possible_times(intervals[k])}

\* find_overlap_n(intervals): the pair (times, intervals_times), or what the
\* except branch returns
find_overlap_n(intervals) ==
    IF raises_IndexError(intervals)
    THEN IF \A k \in DOMAIN intervals : intervals[1] = intervals[k]
         THEN Return([branch |-> "except", ret |-> intervals[1].list])
         ELSE Return([branch |-> "except", ret |-> 0])
    ELSE Return([branch |-> "try",
                 times |-> np_sort(SortedSeq(joined_times(intervals))),
                 intervals_times |->
                     [k \in DOMAIN intervals |-> Cardinality(possible_times(intervals[k]))]])

\* the intervals of a joint scenario: each a range, or a list of 0, 1 or 2
\* ranges
IntervalArgs ==
    {RangeArg(r) : r \in Intervals}
    \cup {ListArg(<<>>)}
    \cup {ListArg(<<r>>) : r \in Intervals}
    \cup {ListArg(<<r, q>>) : r \in Intervals, q \in Intervals}

\* the faults of a joint scenario: one or two
JointArgs ==
    {<<x>> : x \in IntervalArgs} \cup {<<x, y>> : x \in IntervalArgs, y \in IntervalArgs}

\* find_overlap_n(intervals)
FindOverlapN ==
    /\ obj = "none"
    /\ sp.state = "none"
    /\ call = NoCall
    /\ \E intervals \in JointArgs :
           call' = [op |-> "find_overlap_n", intervals |-> intervals,
                    res |-> find_overlap_n(intervals)]
    /\ UNCHANGED <<pmvars, paramvars, timervars, simvars>>

NextOverlap == FindOverlapN

SpecOverlap == Init /\ [][NextOverlap]_vars

\* the instants of one range: from its start in steps of 1.0, up to its end
RangeInstants(r) == {t \in r[1]..r[2] : (t - r[1]) % DefaultDt = 0}
\* the instants eligible in an interval: those of its range, or of any of
\* the ranges of its list
Eligible(interval) ==
    UNION {RangeInstants(as_list(interval)[k]) : k \in DOMAIN as_list(interval)}
\* the instants eligible in every interval of the call
Common ==
    {t \in 0..(MaxT + DefaultDt) :
        \A k \in DOMAIN call.intervals : t \in Eligible(call.intervals[k])}

\* C11: find_overlap_n returns exactly the sorted instants that are eligible
\* in every one of the given intervals, whatever their order; when no
\* instant is common to all, the times returned are empty.
C11_OverlapIsCommonInstants ==
    (call.op = "find_overlap_n" /\ ~raises_IndexError(call.intervals))
        => /\ call.res.val.times = SortedSeq(Common)
           /\ (Len(call.intervals) = 2
                  => call.res.val.times
                       = find_overlap_n(<<call.intervals[2], call.intervals[1]>>).val.times)

----------------------------------------------------------------------------
(* Parameter (define/container/parameter.py)                               *)

\* python values held by the fields of a Parameter, with their type; a
\* number is the quotient num / den, so that 0.1 and 1/2 are exact
Float(n) == [type |-> "float", num |-> n, den |-> 1]
Tenths(n) == [type |-> "float", num |-> n, den |-> 10]
PyInt(n) == [type |-> "int", num |-> n, den |-> 1]
Str(s) == [type |-> "str", str |-> s]
Bool(b) == [type |-> "bool", bool |-> b]
Tuple(items) == [type |-> "tuple", items |-> items]
List(items) == [type |-> "list", items |-> items]
Dict(items) == [type |-> "dict", items |-> items]
PySet(items) == [type |-> "set", elems |-> items]

IsNumber(v) == v.type \in {"float", "int"}
\* a * b and a / b of python numbers; a / b is asked only when b is not zero
Times(a, b) == [type |-> "float", num |-> a.num * b.num, den |-> a.den * b.den]
Quotient(a, b) ==
    IF b.num > 0
    THEN [type |-> "float", num |-> a.num * b.den, den |-> a.den * b.num]
    ELSE [type |-> "float", num |-> 0 - (a.num * b.den), den |-> 0 - (a.den * b.num)]

\* class ExampleParameter(Parameter, readonly=True)
ExampleParameter ==
    [name |-> "ExampleParameter",
     fields |-> <<"x", "y", "z">>,
     annotations |-> [x |-> "float", y |-> "float", z |-> "float"],
     defaults |-> [x |-> Float(1), y |-> Float(3), z |-> Float(0)],
     lims |-> [x |-> <<0, 10>>],
     sets |-> [y |-> {Float(1), Float(2), Float(3), Float(4)}]]

\* class SimParam(Parameter, readonly=True)
SimParamClass ==
    [name |-> "SimParam",
     fields |-> <<"phases", "times", "dt", "units", "end_condition", "use_local">>,
     annotations |-> [phases |-> "tuple", times |-> "tuple", dt |-> "float",
                      units |-> "str", end_condition |-> "str", use_local |-> "bool"],
     defaults |-> [phases |-> Tuple(<< <<"na", 0, Ticks(DefaultEnd)>> >>),
                   times |-> Tuple(<<0, Ticks(DefaultEnd)>>),
                   dt |-> Float(1), units |-> Str("hr"),
                   end_condition |-> Str(""), use_local |-> Bool(TRUE)],
     lims |-> [none |-> <<>>],
     sets |-> [units |-> {Str("sec"), Str("min"), Str("hr"), Str("day"),
                          Str("wk"), Str("month"), Str("year")}]]

\* class BatParam(Parameter)
BatParam ==
    [name |-> "BatParam",
     fields |-> <<"avail_eff", "maxa", "amt", "weight", "drag", "series",
                  "parallel", "voltage">>,
     annotations |-> [avail_eff |-> "float", maxa |-> "float", amt |-> "float",
                      weight |-> "float", drag |-> "float", series |-> "int",
                      parallel |-> "int", voltage |-> "float"],
     defaults |-> [avail_eff |-> Float(0), maxa |-> Float(0), amt |-> Float(0),
                   weight |-> Tenths(1), drag |-> Float(0), series |-> PyInt(1),
                   parallel |-> PyInt(1), voltage |-> Float(12)],
     lims |-> [none |-> <<>>],
     sets |-> [none |-> {}]]

ClassNames == {"ExampleParameter", "SimParam", "BatParam"}
ClassOf(name) ==
    CASE name = "ExampleParameter" -> ExampleParameter
      [] name = "SimParam" -> SimParamClass
      [] name = "BatParam" -> BatParam

\* an outcome of a step of __init__: no exception, or the exception raised
Ok == "none"

\* Parameter.check_lim(k, v): the exception it raises, if any
check_lim_open(cls, k, v) ==
    IF k \in DOMAIN cls.lims /\ ~IsNumber(v) THEN "TypeError"
    ELSE IF k \in DOMAIN cls.lims
            /\ ~(cls.lims[k][1] * v.den < v.num /\ v.num < cls.lims[k][2] * v.den)
         THEN "Exception"
    ELSE IF k \in DOMAIN cls.sets /\ ~(v \in cls.sets[k]) THEN "Exception"
    ELSE Ok

check_lim(cls, k, v) ==
    IF k \in DOMAIN cls.lims /\ ~IsNumber(v) THEN "TypeError"
    ELSE IF k \in DOMAIN cls.lims
            /\ ~(cls.lims[k][1] * v.den <= v.num /\ v.num <= cls.lims[k][2] * v.den)
         THEN "Exception"
    ELSE IF k \in DOMAIN cls.sets /\ ~(v \in cls.sets[k]) THEN "Exception"
    ELSE Ok

\* the position of field k among the fields of the class
FieldIndex(cls, k) == CHOOSE i \in DOMAIN cls.fields : cls.fields[i] = k

\* whether field number i is given, positionally or by keyword
IsGiven(cls, args, kwargs, i) == i <= Len(args) \/ cls.fields[i] \in DOMAIN kwargs
\* the value given for field number i
GivenValue(cls, args, kwargs, i) ==
    IF i <= Len(args) THEN args[i] ELSE kwargs[cls.fields[i]]

\* the loop of __init__ over the fields: the exception of the first given
\* value that check_lim refuses
check_lims(cls, args, kwargs) ==
    LET refused == {i \in DOMAIN cls.fields :
                       /\ IsGiven(cls, args, kwargs, i)
                       /\ check_lim(cls, cls.fields[i],
                                    GivenValue(cls, args, kwargs, i)) # Ok}
    IN  IF refused = {} THEN Ok
        ELSE check_lim(cls, cls.fields[Min(refused)],
                       GivenValue(cls, args, kwargs, Min(refused)))

\* super().__init__(*args, **kwargs): the fields of the new object hold the
\* values given, and the defaults of the class for the others
init_fields(cls, args, kwargs) ==
    [k \in {cls.fields[i] : i \in DOMAIN cls.fields} |->
        IF IsGiven(cls, args, kwargs, FieldIndex(cls, k))
        THEN GivenValue(cls, args, kwargs, FieldIndex(cls, k))
        ELSE cls.defaults[k]]

\* Parameter.check_immutable(): the exception it raises, if any
check_immutable(self) ==
    IF \E f \in DOMAIN self : self[f].type \in {"list", "set", "dict"}
    THEN "Exception" ELSE Ok

\* Parameter.check_type(): the exception it raises, if any
check_type(cls, self) ==
    IF \E f \in DOMAIN cls.annotations : self[f].type # cls.annotations[f]
    THEN "Exception" ELSE Ok

\* the keyword switches of Parameter.__init__, as they are by default
DefaultFlags == [strict_immutability |-> TRUE, check_type |-> TRUE, check_lim |-> TRUE]

Built(cls, self, flags) ==
    [state |-> "built", cls |-> cls.name, fields |-> self, flags |-> flags]
Raised(cls, e) == [state |-> "raised", cls |-> cls.name, exc |-> e]

\* Parameter.__init__(*args, strict_immutability, check_type, check_lim,
\* **kwargs), after which the object exists or an exception is raised; the
\* values are the ones the fields hold once set_arg_type has set their type
Parameter(cls, args, kwargs, flags) ==
    LET lim == IF flags.check_lim THEN check_lims(cls, args, kwargs) ELSE Ok
        self == init_fields(cls, args, kwargs)
        imm == IF flags.strict_immutability THEN check_immutable(self) ELSE Ok
        typ == IF flags.check_type THEN check_type(cls, self) ELSE Ok
    IN  IF lim # Ok THEN Raised(cls, lim)
        ELSE IF imm # Ok THEN Raised(cls, imm)
        ELSE IF typ # Ok THEN Raised(cls, typ)
        ELSE Built(cls, self, flags)

\* SimParam.__init__ for the fields other than phases and times:
\* Parameter.__init__, then find_any_phase_overlap
SimParam_with(args, kwargs, flags) ==
    LET self == Parameter(SimParamClass, args, kwargs, flags)
    IN  IF self.state = "built" /\ find_any_phase_overlap(self.fields.phases.items)
        THEN Raised(SimParamClass, "Exception")
        ELSE self

\* BatParam.__init__: Parameter.__init__, then avail_eff, maxa and amt are
\* computed from the other fields
BatParam_init(args, kwargs, flags) ==
    LET self == Parameter(BatParam, args, kwargs, flags)
        f == self.fields
    IN  IF self.state # "built" THEN self
        ELSE IF f.parallel.num = 0 \/ f.series.num = 0
                \/ Times(f.drag, f.voltage).num = 0
                \/ Times(f.weight, PyInt(170)).num = 0
        THEN Raised(BatParam, "ZeroDivisionError")
        ELSE [self EXCEPT
                !.fields.avail_eff = Quotient(PyInt(1), f.parallel),
                !.fields.maxa = Quotient(PyInt(2), f.series),
                !.fields.amt =
                    Quotient(Float(252),
                             Quotient(Times(f.weight, PyInt(170)),
                                      Times(f.drag, f.voltage)))]

\* cls(*args, **kwargs) for the class of that name
Construct(name, args, kwargs, flags) ==
    CASE name = "ExampleParameter" -> Parameter(ExampleParameter, args, kwargs, flags)
      [] name = "SimParam" -> SimParam_with(args, kwargs, flags)
      [] name = "BatParam" -> BatParam_init(args, kwargs, flags)

\* the keyword arguments of a constructor: for each field of a choice, its
\* value or nothing
NoKwargs == [k \in {} |-> Ok]
Kw(k, values) == {NoKwargs} \cup {[f \in {k} |-> v] : v \in values}

\* values around the limits of ExampleParameter.x and the set of .y, and a
\* number or a container for .z
XArgs ==
    {Float(ExampleParameter.lims.x[1] - 1), Float(ExampleParameter.lims.x[1]),
     Float(ExampleParameter.lims.x[2]), Float(ExampleParameter.lims.x[2] + 1)}
YArgs == {Float(2), Float(5)}
ZArgs == {Float(2), List(<<>>), Dict(<<>>), PySet(<<>>), Tuple(<<>>)}
UnitsArgs == {Str("min"), Str("fortnight")}
CountArgs == {PyInt(0), PyInt(2)}
DragArgs == {Float(0), Tenths(5)}

\* the positional and keyword arguments a class is constructed with
InitArgs(name) ==
    CASE name = "ExampleParameter" ->
             {[args |-> <<>>, kwargs |-> x @@ y @@ z] :
                  x \in Kw("x", XArgs), y \in Kw("y", YArgs), z \in Kw("z", ZArgs)}
             \cup {[args |-> <<x>>, kwargs |-> y @@ z] :
                  x \in XArgs, y \in Kw("y", YArgs), z \in Kw("z", ZArgs)}
      [] name = "SimParam" ->
             {[args |-> <<>>, kwargs |-> u] : u \in Kw("units", UnitsArgs)}
      [] name = "BatParam" ->
             {[args |-> <<>>, kwargs |-> s @@ p @@ d] :
                  s \in Kw("series", CountArgs), p \in Kw("parallel", CountArgs),
                  d \in Kw("drag", DragArgs)}

FlagArgs ==
    [strict_immutability : BOOLEAN, check_type : BOOLEAN, check_lim : BOOLEAN]

\* the keyword arguments copy_with_vals is given: at most one field
CopyArgs(name) ==
    CASE name = "ExampleParameter" ->
             Kw("x", XArgs) \cup Kw("y", YArgs) \cup Kw("z", ZArgs)
      [] name = "SimParam" -> Kw("units", UnitsArgs)
      [] name = "BatParam" -> Kw("parallel", CountArgs) \cup Kw("drag", DragArgs)

\* p = cls(*args, **kwargs) with the switches of Parameter.__init__
Parameter_init ==
    /\ obj = "none"
    /\ sp.state = "none"
    /\ call = NoCall
    /\ param.state = "none"
    /\ \E name \in ClassNames, flags \in FlagArgs :
         \E a \in InitArgs(name) :
           /\ param' = Construct(name, a.args, a.kwargs, flags)
           /\ call' = [op |-> "__init__", cls |-> name, args |-> a.args,
                       kwargs |-> a.kwargs, flags |-> flags]
    /\ UNCHANGED <<pmvars, pcopy, timervars, simvars>>

\* asdict(self) overridden by kwargs: {**asdict(self), **kwargs}
merge_kwargs(self, kwargs) == kwargs @@ self.fields

\* a copy that sets the values in the object itself
copy_with_vals_inplace(self, kwargs) ==
    LET new == Construct(self.cls, <<>>, merge_kwargs(self, kwargs), DefaultFlags)
    IN  [self |-> IF new.state = "built" THEN new ELSE self, ret |-> new]

\* Parameter.copy_with_vals(**kwargs): the object itself afterwards, and the
\* object returned (or the exception raised)
copy_with_vals(self, kwargs) ==
    [self |-> self,
     ret |-> Construct(self.cls, <<>>, merge_kwargs(self, kwargs), DefaultFlags)]

\* p.copy_with_vals(**kwargs)
CopyWithVals ==
    /\ param.state = "built"
    /\ pcopy.state = "none"
    /\ \E kwargs \in CopyArgs(param.cls) :
           /\ param' = copy_with_vals(param, kwargs).self
           /\ pcopy' = copy_with_vals(param, kwargs).ret
           /\ call' = [op |-> "copy_with_vals", kwargs |-> kwargs]
    /\ UNCHANGED <<pmvars, timervars, simvars>>

NextParameter ==
    \/ Parameter_init
    \/ CopyWithVals

SpecParameter == Init /\ [][NextParameter]_vars

\* the class of an object
ClassOfObject(o) == ClassOf(o.cls)
\* value v is within the declared bounds k_lim of field k, if it has any
WithinLim(cls, k, v) ==
    k \in DOMAIN cls.lims
        => /\ IsNumber(v)
           /\ cls.lims[k][1] * v.den <= v.num
           /\ v.num <= cls.lims[k][2] * v.den
\* value v is in the declared set k_set of field k, if it has one
WithinSet(cls, k, v) == k \in DOMAIN cls.sets => v \in cls.sets[k]
\* every field of a constructed Parameter satisfies its limits and sets
Valid(o) ==
    \A k \in DOMAIN o.fields :
        /\ WithinLim(ClassOfObject(o), k, o.fields[k])
        /\ WithinSet(ClassOfObject(o), k, o.fields[k])
\* the constructor was given a value outside the limits or the set of its field
GivenInvalid ==
    \E i \in DOMAIN ClassOf(call.cls).fields :
        /\ IsGiven(ClassOf(call.cls), call.args, call.kwargs, i)
        /\ ~(/\ WithinLim(ClassOf(call.cls), ClassOf(call.cls).fields[i],
                          GivenValue(ClassOf(call.cls), call.args, call.kwargs, i))
             /\ WithinSet(ClassOf(call.cls), ClassOf(call.cls).fields[i],
                          GivenValue(ClassOf(call.cls), call.args, call.kwargs, i)))
\* the constructor was given, for every field, a value of the type of the field
GivenTyped ==
    \A i \in DOMAIN ClassOf(call.cls).fields :
        IsGiven(ClassOf(call.cls), call.args, call.kwargs, i)
            => GivenValue(ClassOf(call.cls), call.args, call.kwargs, i).type
                   = ClassOf(call.cls).annotations[ClassOf(call.cls).fields[i]]

\* C12: construction raises whenever a value given for a field is outside
\* the field's limits or set, so every constructed Parameter satisfies all
\* its declared limits and sets.
C12_OnlyValidParameters ==
    /\ (call.op = "__init__" /\ GivenInvalid) => param.state = "raised"
    /\ param.state = "built" => Valid(param)
    /\ pcopy.state = "built" => Valid(pcopy)

\* C12, amended: with check_lim left on, construction raises whenever a
\* given value is outside its limits or set, and accepts the values at the
\* limits; a Parameter built with check_lim on, and every copy made by
\* copy_with_vals, satisfies all its limits and sets.
C12_ValidUnlessCheckLimOff ==
    /\ (call.op = "__init__" /\ call.flags.check_lim /\ GivenInvalid)
           => param.state = "raised"
    /\ (call.op = "__init__" /\ call.cls # "BatParam" /\ ~GivenInvalid /\ GivenTyped)
           => param.state = "built"
    /\ (param.state = "built" /\ param.flags.check_lim) => Valid(param)
    /\ pcopy.state = "built" => Valid(pcopy)

\* a value outside its limits was given with check_lim on, and refused
C12_Witness ==
    /\ call.op = "__init__"
    /\ call.flags.check_lim
    /\ GivenInvalid
    /\ param.state = "raised"
    /\ param.exc = "Exception"

\* no field of the object holds a list, a set or a dict
NoContainer(o) ==
    \A k \in DOMAIN o.fields : o.fields[k].type \notin {"list", "set", "dict"}
\* a step leaves a constructed Parameter as it was
Unchanged(o, o_next) == o.state = "built" => o_next = o
\* the copy holds the values given to copy_with_vals
CopyHoldsValues ==
    (call.op = "copy_with_vals" /\ pcopy.state = "built")
        => \A k \in DOMAIN call.kwargs : pcopy.fields[k] = call.kwargs[k]

----------------------------------------------------------------------------
(* Timer (define/object/timer.py)                                          *)

\* largest time a timer is set to or reaches
MaxTimer == 2
\* Timer.__init__: self.tstep = -1.0, also the default of set_timer's tstep
DefaultTstep == 0 - 1

\* Timer(name)
Timer == [state |-> "built", time |-> 0, tstep |-> DefaultTstep, mode |-> "standby"]

\* the tstep argument of inc: not given (the default []), or a number
NoTstep == [given |-> FALSE]
Tstep(n) == [given |-> TRUE, val |-> n]

\* inc without the last two lines: the time is not held at 0.0
inc_unclamped(self, tstep) ==
    IF self.time >= 0
    THEN [self EXCEPT
            !.time = IF tstep.given /\ tstep.val # 0
                     THEN self.time + tstep.val
                     ELSE self.time + self.tstep,
            !.mode = "ticking"]
    ELSE self

\* inc that counts with the step of a new Timer instead of self.tstep
inc_default_step(self, tstep) ==
    LET ticked == IF self.time >= 0
                  THEN [self EXCEPT
                          !.time = IF tstep.given /\ tstep.val # 0
                                   THEN self.time + tstep.val
                                   ELSE self.time + DefaultTstep,
                          !.mode = "ticking"]
                  ELSE self
    IN  IF ticked.time <= 0
        THEN [ticked EXCEPT !.time = 0, !.mode = "complete"]
        ELSE ticked

\* Timer.inc(tstep)
inc(self, tstep) ==
    LET ticked == IF self.time >= 0
                  THEN [self EXCEPT
                          !.time = IF tstep.given /\ tstep.val # 0
                                   THEN self.time + tstep.val
                                   ELSE self.time + self.tstep,
                          !.mode = "ticking"]
                  ELSE self
    IN  IF ticked.time <= 0
        THEN [ticked EXCEPT !.time = 0, !.mode = "complete"]
        ELSE ticked

\* Timer.reset()
reset(self) == [self EXCEPT !.time = 0, !.mode = "standby"]

\* set_timer where 'if_more' and 'if_less' are exchanged
set_timer_exchanged(self, time, tstep, overwrite) ==
    [self EXCEPT
        !.time = IF overwrite = "always" THEN time
                 ELSE IF overwrite = "if_more" /\ self.time > time THEN time
                 ELSE IF overwrite = "if_less" /\ self.time < time THEN time
                 ELSE IF overwrite = "never" /\ self.time = 0 THEN time
                 ELSE IF overwrite = "increment" THEN self.time + time
                 ELSE self.time,
        !.tstep = tstep,
        !.mode = "set"]

\* Timer.set_timer(time, tstep, overwrite)
set_timer(self, time, tstep, overwrite) ==
    [self EXCEPT
        !.time = IF overwrite = "always" THEN time
                 ELSE IF overwrite = "if_more" /\ self.time < time THEN time
                 ELSE IF overwrite = "if_less" /\ self.time > time THEN time
                 ELSE IF overwrite = "never" /\ self.time = 0 THEN time
                 ELSE IF overwrite = "increment" THEN self.time + time
                 ELSE self.time,
        !.tstep = tstep,
        !.mode = "set"]

\* an indicator that takes a timer at 0.0 for one in standby
indicate_standby_unset(self) == self.time = 0

\* Timer.indicate_standby()
indicate_standby(self) == self.mode = "standby"

\* Timer.indicate_ticking()
indicate_ticking(self) == self.mode = "ticking"

\* Timer.indicate_complete()
indicate_complete(self) == self.mode = "complete"

\* Timer.indicate_set()
indicate_set(self) == self.mode = "set"

\* the times and steps given to the methods of a timer
TimerTimes == (0 - 1)..MaxTimer
\* the calls on a reset timer are followed for as long as it shows the time
\* and mode of its twin
Agree == twin.state = "built" => (timer.time = twin.time /\ timer.mode = twin.mode)
TstepArgs == {DefaultTstep, 0, 1}
OverwriteArgs == {"always", "if_more", "if_less", "never", "increment", "other"}

\* t = Timer()
Timer_init ==
    /\ obj = "none"
    /\ sp.state = "none"
    /\ param.state = "none"
    /\ timer.state = "none"
    /\ timer' = Timer
    /\ call' = [op |-> "Timer"]
    /\ UNCHANGED <<pmvars, paramvars, twin, simvars>>

\* t.set_timer(time, tstep, overwrite), and the same call on the twin
SetTimer ==
    /\ timer.state = "built"
    /\ Agree
    /\ \E time \in TimerTimes, tstep \in TstepArgs, overwrite \in OverwriteArgs :
         /\ set_timer(timer, time, tstep, overwrite).time \in TimerTimes
         /\ timer' = set_timer(timer, time, tstep, overwrite)
         /\ twin' = IF twin.state = "built"
                    THEN set_timer(twin, time, tstep, overwrite) ELSE twin
         /\ call' = [op |-> "set_timer", old |-> timer.time, time |-> time,
                     tstep |-> tstep, overwrite |-> overwrite]
    /\ UNCHANGED <<pmvars, paramvars, simvars>>

\* t.inc() or t.inc(tstep), and the same call on the twin
Inc ==
    /\ timer.state = "built"
    /\ Agree
    /\ \E tstep \in {NoTstep} \cup {Tstep(n) : n \in TstepArgs} :
         /\ inc(timer, tstep).time \in TimerTimes
         /\ timer' = inc(timer, tstep)
         /\ twin' = IF twin.state = "built" THEN inc(twin, tstep) ELSE twin
         /\ call' = [op |-> "inc", tstep |-> tstep, old |-> timer.time,
                     was |-> timer.mode]
    /\ UNCHANGED <<pmvars, paramvars, simvars>>

\* t.reset() when a scenario is initialized; the twin is a new Timer()
Reset ==
    /\ timer.state = "built"
    /\ Agree
    /\ timer' = reset(timer)
    /\ twin' = Timer
    /\ call' = [op |-> "reset"]
    /\ UNCHANGED <<pmvars, paramvars, simvars>>

NextTimer ==
    \/ Timer_init
    \/ SetTimer
    \/ Inc
    \/ Reset

SpecTimer == Init /\ [][NextTimer]_vars

\* the time the overwrite policy asks for
PolicyTime(old, new, overwrite) ==
    CASE overwrite = "always" -> new
      [] overwrite = "if_more" -> IF new > old THEN new ELSE old
      [] overwrite = "if_less" -> IF new < old THEN new ELSE old
      [] overwrite = "never" -> IF old = 0 THEN new ELSE old
      [] overwrite = "increment" -> old + new
      [] OTHER -> old

\* C14: after set_timer(time, tstep, overwrite) the stored time is the one
\* the overwrite policy asks for: the new time under 'always', under
\* 'if_more' when it is greater than the old, under 'if_less' when it is
\* less, under 'never' when the old time is 0.0; the sum under 'increment';
\* the old time in every other case.
C14_TimeFollowsOverwritePolicy ==
    call.op = "set_timer"
        => timer.time = PolicyTime(call.old, call.time, call.overwrite)

\* set_timer has left a running time alone under 'never'
C14_Witness ==
    /\ call.op = "set_timer"
    /\ call.overwrite = "never"
    /\ call.old # 0
    /\ call.time # call.old
    /\ timer.time = call.old

\* C15: after reset() the time is 0.0 and the mode is 'standby', and after
\* every later inc() and set_timer() call the timer has the same time and
\* mode as a new Timer given the same calls.
C15_ResetBehavesAsNew ==
    /\ call.op = "reset" => (timer.time = 0 /\ timer.mode = "standby")
    /\ twin.state = "built" => (timer.time = twin.time /\ timer.mode = twin.mode)

----------------------------------------------------------------------------
(* Mode: the fault state of a component.  The Mode class is declared by    *)
(* the models (ActionMode, CtlDOFMode, BatMode); its methods follow the    *)
(* data model of the specification: the active fault set, empty when       *)
(* nominal, and the exclusive flag.                                        *)

\* class ActionMode(Mode): fm_args = ('failed', 'unable'), exclusive = True
ActionMode == [state |-> "built", cls |-> "ActionMode", exclusive |-> TRUE, faults |-> {}]
\* class CtlDOFMode(Mode): faults 'noctl' and 'degctl', exclusive = True
CtlDOFMode == [state |-> "built", cls |-> "CtlDOFMode", exclusive |-> TRUE, faults |-> {}]
\* class BatMode(Mode): five faults, exclusive left at its default
BatMode == [state |-> "built", cls |-> "BatMode", exclusive |-> FALSE, faults |-> {}]

\* the fault names a Mode class declares
FaultNames(cls) ==
    CASE cls = "ActionMode" -> {"failed", "unable"}
      [] cls = "CtlDOFMode" -> {"noctl", "degctl"}
      [] cls = "BatMode" -> {"short", "degr", "break", "nocharge", "lowcharge"}

\* add_fault that keeps the faults already active
add_fault_keep(m, fault) == [m EXCEPT !.faults = m.faults \cup {fault}]

\* m.add_fault(fault): the fault becomes active; in an exclusive Mode it is
\* then the only one
add_fault(m, fault) ==
    IF m.exclusive
    THEN [m EXCEPT !.faults = {fault}]
    ELSE [m EXCEPT !.faults = m.faults \cup {fault}]

\* m.remove_fault(fault): the fault is cleared
remove_fault(m, fault) == [m EXCEPT !.faults = m.faults \ {fault}]

\* m.replace_fault(old, new): old is cleared and new becomes active
replace_fault(m, old, new) == add_fault(remove_fault(m, old), new)

\* m.in_mode(*modes): one of the modes is active
in_mode(m, modes) == m.faults \cap modes # {}

----------------------------------------------------------------------------
(* Propagation engine: one scenario on HazardModel (asg_demo/demo_model.py) *)
(* extended by two components that exchange a flow in a cycle.  The engine  *)
(* follows section 4.3 of the specification; the behaviours of the          *)
(* functions of HazardModel are those of demo_model.py.                     *)

\* the horizon of the simulation, in ticks
MaxEnd == 4
\* the largest value the cyclic flow starts from
MaxFlow == 3
\* the iteration cap of the static phase
IterCap == 5

\* HazardModel.init_architecture: the functions in the order they are added,
\* then the two components of the cycle
Fxns == <<"produce_hazard", "detect_hazard", "pass_hazard", "cycle_a", "cycle_b">>
\* the functions that declare dynamic_behavior
HasDynamicBehavior(f) == f \in {"produce_hazard", "pass_hazard"}
\* mdl.dynamicfxns: the functions with dynamic behaviour in the order of
\* their declaration, fixed when the model is built
RECURSIVE SelectDynamic(_)
SelectDynamic(fs) ==
    IF fs = <<>> THEN <<>>
    ELSE IF HasDynamicBehavior(Head(fs)) THEN <<Head(fs)>> \o SelectDynamic(Tail(fs))
    ELSE SelectDynamic(Tail(fs))
dynamicfxns == SelectDynamic(Fxns)

\* the flows at the start of a scenario: Hazard and PassStates as declared,
\* and the cyclic flow with field a = 0 and field b = b0
InitFlows(b0) ==
    [present |-> FALSE, percieved |-> FALSE, mitigated |-> FALSE,
     hazards_mitigated |-> 0, hazards_propagated |-> 0, a |-> 0, b |-> b0]

\* Perceive.behavior, Act.behavior and Done.behavior of the Human in
\* detect_hazard: the flows and the Mode of perceive afterwards
detect_hazard(flows, m) ==
    LET failing == in_mode(m, {"failed", "unable"})
        percieved == IF failing THEN FALSE ELSE flows.present
        acted == IF percieved THEN TRUE ELSE flows.mitigated
        mitigated == IF ~flows.present THEN FALSE ELSE acted
    IN  [flows |-> [flows EXCEPT !.percieved = percieved, !.mitigated = mitigated],
         m |-> IF failing THEN remove_fault(m, "failed") ELSE m]

\* a cycle whose update grows whatever its kind
cycle_growing(flows, update) == [flows EXCEPT !.a = flows.b + 1, !.b = flows.b + 1]

\* the instantaneous behaviour of the two components of the cycle: cycle_a
\* sets a from b, cycle_b sets b from a
cycle(flows, update) ==
    LET a == IF update = "contracting" THEN flows.b \div 2 ELSE flows.b + 1
    IN  [flows EXCEPT !.a = a, !.b = a]

\* the update of the cycle in a pass: a cycle of the kind "diverging_in_fault"
\* contracts while the Mode is nominal and diverges while a fault is active
update_kind(update, m) ==
    IF update = "diverging_in_fault"
    THEN (IF m.faults = {} THEN "contracting" ELSE "diverging")
    ELSE update

\* one pass of the static phase over the components
static_pass(flows, m, update) ==
    LET d == detect_hazard(flows, m)
    IN  [flows |-> cycle(d.flows, update_kind(update, m)), m |-> d.m]

\* ProduceHazard.dynamic_behavior(time)
produce_hazard(flows, time) == [flows EXCEPT !.present = (time % Ticks(4) = 0)]

\* PassHazard.dynamic_behavior(time)
pass_hazard(flows, time) ==
    IF flows.present /\ flows.mitigated
    THEN [flows EXCEPT !.hazards_mitigated = @ + 1]
    ELSE IF flows.present /\ ~flows.mitigated
    THEN [flows EXCEPT !.hazards_propagated = @ + 1]
    ELSE flows

\* the dynamic behaviour of function f
dynamic_behavior(f, flows, time) ==
    CASE f = "produce_hazard" -> produce_hazard(flows, time)
      [] f = "pass_hazard" -> pass_hazard(flows, time)
      [] OTHER -> flows

\* an empty History: the time axis and one sequence for each tracked field
NoHistory == [time |-> <<>>, flows |-> <<>>, faults |-> <<>>, converged |-> <<>>]

\* a log that records the faults only when some fault is active
log_sparse(hist, time, flows, m, nonconv) ==
    [time |-> Append(hist.time, time),
     flows |-> Append(hist.flows, flows),
     faults |-> IF m.faults = {} THEN hist.faults ELSE Append(hist.faults, m.faults),
     converged |-> Append(hist.converged, ~nonconv)]

\* History.log: the current values are appended at the current time
log(hist, time, flows, m, nonconv) ==
    [time |-> Append(hist.time, time),
     flows |-> Append(hist.flows, flows),
     faults |-> Append(hist.faults, m.faults),
     converged |-> Append(hist.converged, ~nonconv)]

\* the scenarios: the nominal one, and a fault of perceive at a time
NominalScen == [fault |-> "nom", time |-> 0 - 1]
ScenArgs ==
    {NominalScen} \cup {[fault |-> f, time |-> t] : f \in FaultNames("ActionMode"),
                                                    t \in 0..MaxEnd}
UpdateArgs == {"contracting", "diverging", "diverging_in_fault"}

\* Initialize: the flows and the Mode are reset, time = start
initialize(d, scen, update, b0) ==
    [state |-> "running", pc |-> "inject", time |-> 0, dt |-> d,
     scen |-> scen, update |-> update, flows |-> InitFlows(b0),
     m |-> ActionMode, iter |-> 0, converged |-> FALSE,
     nonconv |-> FALSE, injected |-> 0, calls |-> <<>>,
     hist |-> NoHistory]

\* a scenario is started on a model
Initialize ==
    /\ obj = "none"
    /\ sp.state = "none"
    /\ param.state = "none"
    /\ timer.state = "none"
    /\ modeobj.state = "none"
    /\ sim.state = "none"
    /\ \E d \in DtArgs, scen \in ScenArgs, update \in UpdateArgs, b0 \in 0..MaxFlow :
           sim' = initialize(d, scen, update, b0)
    /\ call' = [op |-> "Initialize"]
    /\ UNCHANGED <<pmvars, paramvars, timervars, modeobj, batch>>

\* an injection at every tick from the time of the scenario on
InjectFault_every ==
    /\ sim.state = "running"
    /\ sim.pc = "inject"
    /\ sim' = IF sim.scen.fault # "nom" /\ sim.scen.time <= sim.time
              THEN [sim EXCEPT !.m = add_fault(sim.m, sim.scen.fault),
                               !.injected = sim.injected + 1,
                               !.pc = "static", !.iter = 0, !.converged = FALSE]
              ELSE [sim EXCEPT !.pc = "static", !.iter = 0, !.converged = FALSE]
    /\ call' = [op |-> "InjectFault"]
    /\ UNCHANGED <<pmvars, paramvars, timervars, modeobj, batch>>

\* Fault injection, before the static phase of the tick: at the time of the
\* scenario the Mode of the target is forced into the fault
inject_fault(s) ==
    IF s.scen.fault # "nom" /\ s.scen.time = s.time
    THEN [s EXCEPT !.m = add_fault(s.m, s.scen.fault),
                   !.injected = s.injected + 1,
                   !.pc = "static", !.iter = 0, !.converged = FALSE]
    ELSE [s EXCEPT !.pc = "static", !.iter = 0, !.converged = FALSE]

\* the injection step of the tick
InjectFault ==
    /\ sim.state = "running"
    /\ sim.pc = "inject"
    /\ sim' = inject_fault(sim)
    /\ call' = [op |-> "InjectFault"]
    /\ UNCHANGED <<pmvars, paramvars, timervars, modeobj, batch>>

\* Static phase, one pass: the phase ends when no flow field has changed,
\* or with the scenario flagged when the pass is the last the cap allows
static_step(s) ==
    LET after == static_pass(s.flows, s.m, s.update)
        same == after.flows = s.flows
        last == s.iter + 1 >= IterCap
    IN  [s EXCEPT
           !.flows = after.flows,
           !.m = after.m,
           !.iter = s.iter + 1,
           !.converged = same,
           !.nonconv = s.nonconv \/ (~same /\ last),
           !.pc = IF same \/ last THEN "dynamic" ELSE "static"]

\* one pass of the static phase of the tick
StaticPass ==
    /\ sim.state = "running"
    /\ sim.pc = "static"
    /\ sim' = static_step(sim)
    /\ call' = [op |-> "StaticPass"]
    /\ UNCHANGED <<pmvars, paramvars, timervars, modeobj, batch>>

\* a dynamic phase that takes the functions in the order of their names
DynamicStep_sorted ==
    /\ sim.state = "running"
    /\ sim.pc = "dynamic"
    /\ LET f == IF sim.calls = <<>> THEN "pass_hazard" ELSE "produce_hazard"
       IN  sim' = [sim EXCEPT
                     !.flows = dynamic_behavior(f, sim.flows, sim.time),
                     !.calls = Append(sim.calls, f),
                     !.pc = IF Len(sim.calls) + 1 = Len(dynamicfxns)
                            THEN "record" ELSE "dynamic"]
    /\ call' = [op |-> "DynamicStep"]
    /\ UNCHANGED <<pmvars, paramvars, timervars, modeobj, batch>>

\* Dynamic phase, one function: the next of mdl.dynamicfxns
dynamic_step(s) ==
    LET f == dynamicfxns[Len(s.calls) + 1]
    IN  [s EXCEPT
           !.flows = dynamic_behavior(f, s.flows, s.time),
           !.calls = Append(s.calls, f),
           !.pc = IF Len(s.calls) + 1 = Len(dynamicfxns) THEN "record" ELSE "dynamic"]

\* the dynamic behaviour of the next function
DynamicStep ==
    /\ sim.state = "running"
    /\ sim.pc = "dynamic"
    /\ sim' = dynamic_step(sim)
    /\ call' = [op |-> "DynamicStep"]
    /\ UNCHANGED <<pmvars, paramvars, timervars, modeobj, batch>>

\* Record, then the time advances by dt; the scenario ends when the time
\* exceeds the horizon
record(s) ==
    [s EXCEPT
       !.hist = log(s.hist, s.time, s.flows, s.m, s.nonconv),
       !.time = s.time + s.dt,
       !.calls = <<>>,
       !.pc = IF s.time + s.dt > MaxEnd THEN "done" ELSE "inject"]

\* the record at the end of the tick
Record ==
    /\ sim.state = "running"
    /\ sim.pc = "record"
    /\ sim' = record(sim)
    /\ call' = [op |-> "Record"]
    /\ UNCHANGED <<pmvars, paramvars, timervars, modeobj, batch>>

NextSim ==
    \/ Initialize
    \/ InjectFault
    \/ StaticPass
    \/ DynamicStep
    \/ Record

SpecSim == Init /\ [][NextSim]_vars

\* the steps of a scenario are taken as long as one is possible: the loop
\* of the engine does not suspend
FairSpecSim == SpecSim /\ WF_vars(NextSim)

\* where the scenario is in its tick, "none" before Initialize
SimPc == IF sim.state = "none" THEN "none" ELSE sim.pc
Running == sim.state = "running"

FaultScen == Running /\ sim.scen.fault # "nom"
OnTick == sim.scen.time % sim.dt = 0

\* C17: in a fault scenario the fault is injected exactly once, at the tick
\* whose time is the injection time and before the static phase of that
\* tick; at earlier ticks the Mode of the target is nominal; forcing a fault
\* that is already active leaves the Mode as it is.
C17_InjectedOnceAtItsTick ==
    FaultScen =>
        /\ sim.injected <= 1
        /\ sim.time < sim.scen.time => (sim.injected = 0 /\ sim.m.faults = {})
        /\ (sim.time = sim.scen.time /\ sim.pc = "inject") => sim.injected = 0
        /\ (sim.time = sim.scen.time /\ sim.pc = "static" /\ sim.iter = 0)
               => (sim.injected = 1 /\ sim.m.faults = {sim.scen.fault})
        /\ (sim.time = sim.scen.time /\ sim.pc # "inject") => sim.injected = 1
        /\ (sim.time > sim.scen.time /\ OnTick) => sim.injected = 1
        /\ \A f \in sim.m.faults : add_fault(sim.m, f) = sim.m

\* the fault has been injected at its tick and the static phase is about to
\* run
C17_Witness ==
    /\ FaultScen
    /\ sim.time = sim.scen.time
    /\ sim.time > 0
    /\ sim.pc = "static"
    /\ sim.iter = 0
    /\ sim.injected = 1
    /\ sim.scen.fault \in sim.m.faults

\* sequence s is the start of sequence t
IsPrefix(s, t) == Len(s) <= Len(t) /\ \A i \in DOMAIN s : s[i] = t[i]
\* how many times function f has been invoked in the dynamic phase of the tick
Invocations(f) == Cardinality({i \in DOMAIN sim.calls : sim.calls[i] = f})

\* C18: in every time step the dynamic phase invokes the dynamic behaviour
\* of each function that declares one exactly once, in the order of
\* mdl.dynamicfxns, and never that of a function that declares none.
C18_DynamicOnceInFixedOrder ==
    Running =>
        /\ IsPrefix(sim.calls, dynamicfxns)
        /\ sim.pc = "record" => sim.calls = dynamicfxns
        /\ sim.pc = "record"
               => \A i \in DOMAIN Fxns :
                      Invocations(Fxns[i]) = IF HasDynamicBehavior(Fxns[i]) THEN 1 ELSE 0
        /\ sim.pc \in {"inject", "static"} => sim.calls = <<>>

\* the dynamic phase of a later tick is complete
C18_Witness ==
    /\ Running
    /\ sim.pc = "record"
    /\ sim.time > 0
    /\ sim.calls = <<"produce_hazard", "pass_hazard">>

\* History g holds everything History h holds, in the same places
Extends(g, h) ==
    /\ IsPrefix(h.time, g.time)
    /\ IsPrefix(h.flows, g.flows)
    /\ IsPrefix(h.faults, g.faults)
    /\ IsPrefix(h.converged, g.converged)
\* the History of the scenario, empty before Initialize
Hist(s) == IF s.state = "none" THEN NoHistory ELSE s.hist

\* C19: History is append-only; within the scenario every recorded sequence
\* is as long as the time axis, and the time axis increases by the fixed
\* step dt from one record to the next.
C19_HistoryAlignedAppendOnly ==
    /\ [][Extends(Hist(sim'), Hist(sim))]_vars
    /\ [](Running =>
            /\ Len(sim.hist.flows) = Len(sim.hist.time)
            /\ Len(sim.hist.faults) = Len(sim.hist.time)
            /\ Len(sim.hist.converged) = Len(sim.hist.time)
            /\ \A i \in 1..(Len(sim.hist.time) - 1) :
                   /\ sim.hist.time[i + 1] = sim.hist.time[i] + sim.dt
                   /\ sim.hist.time[i + 1] > sim.hist.time[i])

\* several steps have been recorded
C19_Witness ==
    /\ Running
    /\ Len(sim.hist.time) >= 3
    /\ sim.hist.flows[1] # sim.hist.flows[2]

----------------------------------------------------------------------------
(* a Mode on its own, under any sequence of its methods                    *)

ModeClass(cls) ==
    CASE cls = "ActionMode" -> ActionMode
      [] cls = "CtlDOFMode" -> CtlDOFMode
      [] cls = "BatMode" -> BatMode

\* m = cls(): the Mode of a component, nominal
Mode_init ==
    /\ obj = "none"
    /\ sp.state = "none"
    /\ param.state = "none"
    /\ timer.state = "none"
    /\ sim.state = "none"
    /\ modeobj.state = "none"
    /\ \E cls \in {"ActionMode", "CtlDOFMode", "BatMode"} : modeobj' = ModeClass(cls)
    /\ call' = [op |-> "Mode"]
    /\ UNCHANGED <<pmvars, paramvars, timervars, sim, batch>>

\* m.add_fault(fault): an injection, or a fault the component diagnoses
AddFault ==
    /\ modeobj.state = "built"
    /\ \E fault \in FaultNames(modeobj.cls) :
           /\ modeobj' = add_fault(modeobj, fault)
           /\ call' = [op |-> "add_fault", fault |-> fault, old |-> modeobj.faults]
    /\ UNCHANGED <<pmvars, paramvars, timervars, sim, batch>>

\* m.replace_fault(old, new)
ReplaceFault ==
    /\ modeobj.state = "built"
    /\ \E old \in FaultNames(modeobj.cls), new \in FaultNames(modeobj.cls) :
           /\ modeobj' = replace_fault(modeobj, old, new)
           /\ call' = [op |-> "replace_fault", fault |-> new, old |-> modeobj.faults]
    /\ UNCHANGED <<pmvars, paramvars, timervars, sim, batch>>

\* m.remove_fault(fault): a recovery
RemoveFault ==
    /\ modeobj.state = "built"
    /\ \E fault \in FaultNames(modeobj.cls) :
           /\ modeobj' = remove_fault(modeobj, fault)
           /\ call' = [op |-> "remove_fault", fault |-> fault, old |-> modeobj.faults]
    /\ UNCHANGED <<pmvars, paramvars, timervars, sim, batch>>

NextMode ==
    \/ Mode_init
    \/ AddFault
    \/ ReplaceFault
    \/ RemoveFault

SpecMode == Init /\ [][NextMode]_vars

\* C20: an exclusive Mode has at most one active fault in every reachable
\* state, whatever faults were injected, added, replaced or removed.
C20_ExclusiveAtMostOneFault ==
    (modeobj.state = "built" /\ modeobj.exclusive) => Cardinality(modeobj.faults) <= 1

\* a second fault was added to an exclusive Mode that had another one
C20_Witness ==
    /\ modeobj.state = "built"
    /\ modeobj.exclusive
    /\ call.op = "add_fault"
    /\ call.old # {}
    /\ call.fault \notin call.old
    /\ modeobj.faults = {call.fault}

----------------------------------------------------------------------------
(* Runs of the engine on one model object: a scenario run directly, the    *)
(* same scenario run again, and a batch of scenarios.  The model is        *)
(* HazardModel with the cycle, and its last dynamic function also owns a   *)
(* Timer (define/object/timer.py) that the engine records and resets.      *)

\* the times at which the function sets its Timer, and the steps it sets
SetAtArgs == {0, DefaultDt}
TimerProgs == {[set_at |-> k, tstep |-> ts] : k \in SetAtArgs, ts \in {DefaultTstep, 1}}

\* the dynamic behaviour of the function owning the Timer: it sets the timer
\* at one time of the run and increments it at every other
timer_behavior(t, tprog, time) ==
    IF time = tprog.set_at
    THEN set_timer(t, MaxTimer, tprog.tstep, "always")
    ELSE inc(t, NoTstep)

\* the model the caller builds: its parameters, read only during the runs
Models ==
    {[dt |-> d, update |-> u, b0 |-> b0, tprog |-> p] :
        d \in DtArgs, u \in UpdateArgs, b0 \in 0..MaxFlow, p \in TimerProgs}

\* the Flows, the Mode and the Timer of a model that has just been built
NewObjects(mdl) == [flows |-> InitFlows(mdl.b0), m |-> ActionMode, t |-> Timer]

\* Initialize on the objects o of the model: the Flows and the Mode are
\* reset to their initial values, the Timer by Timer.reset()
initialize_objects(mdl, o, scen) ==
    initialize(mdl.dt, scen, mdl.update, mdl.b0)
        @@ [t |-> reset(o.t), thist |-> <<>>, tprog |-> mdl.tprog]

\* one step of a scenario, wherever it is in its tick; the Timer is run
\* last in the dynamic phase and recorded with its tracked fields, time and
\* mode (Timer.default_track)
step(s) ==
    CASE s.pc = "inject" -> inject_fault(s)
      [] s.pc = "static" -> static_step(s)
      [] s.pc = "dynamic" -> dynamic_step(s)
      [] s.pc = "record" ->
             LET t == timer_behavior(s.t, s.tprog, s.time)
             IN  [record(s) EXCEPT !.t = t,
                                   !.thist = Append(s.thist, <<t.time, t.mode>>)]
      [] OTHER -> s

\* a run called directly: the loop of the engine up to the horizon; a
\* static phase that does not converge aborts it
RECURSIVE run_direct(_)
run_direct(s) ==
    IF s.nonconv \/ s.pc = "done" THEN s ELSE run_direct(step(s))

\* a result that hands the History over whether or not the run converged
result_flagged(s) ==
    [exc |-> "none", id |-> s.scen, hist |-> s.hist, thist |-> s.thist]

\* what the caller of a run gets, and the objects of the model afterwards
result_of(s) ==
    IF s.nonconv THEN [exc |-> "NonConvergenceError", id |-> s.scen]
    ELSE [exc |-> "none", id |-> s.scen, hist |-> s.hist, thist |-> s.thist]
objects_of(s) == [flows |-> s.flows, m |-> s.m, t |-> s.t]

\* mdl = HazardModel(...)
BuildModel ==
    /\ obj = "none"
    /\ sp.state = "none"
    /\ param.state = "none"
    /\ timer.state = "none"
    /\ sim.state = "none"
    /\ modeobj.state = "none"
    /\ batch.state = "none"
    /\ \E mdl \in Models :
           batch' = [state |-> "built", mdl |-> mdl, o |-> NewObjects(mdl),
                     runs |-> <<>>]
    /\ call' = [op |-> "HazardModel"]
    /\ UNCHANGED <<pmvars, paramvars, timervars, sim, modeobj>>

\* run_one_fault(mdl, component, fault, time), or run_nominal(mdl), on a
\* model that has not been run
RunOneFault ==
    /\ batch.state = "built"
    /\ batch.runs = <<>>
    /\ \E scen \in ScenArgs :
           LET s == run_direct(initialize_objects(batch.mdl, batch.o, scen))
           IN  batch' = [batch EXCEPT !.o = objects_of(s),
                                      !.runs = <<result_of(s)>>]
    /\ call' = [op |-> "run_one_fault"]
    /\ UNCHANGED <<pmvars, paramvars, timervars, sim, modeobj>>

\* the same call once more, on the model the first run has left
RunAgain ==
    /\ batch.state = "built"
    /\ Len(batch.runs) = 1
    /\ LET s == run_direct(initialize_objects(batch.mdl, batch.o, batch.runs[1].id))
       IN  batch' = [batch EXCEPT !.o = objects_of(s),
                                  !.runs = Append(batch.runs, result_of(s))]
    /\ call' = [op |-> "run_one_fault"]
    /\ UNCHANGED <<pmvars, paramvars, timervars, sim, modeobj>>

\* a run of a batch: the loop of the engine up to the horizon; a static
\* phase that does not converge flags the scenario and the run goes on
RECURSIVE run_flagged(_)
run_flagged(s) ==
    IF s.pc = "done" THEN s ELSE run_flagged(step(s))

\* the steps of one tick of a scenario, up to the advance of the time
RECURSIVE tick(_)
tick(s) ==
    LET n == step(s)
    IN  IF n.pc \in {"inject", "done"} THEN n ELSE tick(n)

\* the History slice and the status a worker hands over for its scenario
slice_of(s) ==
    [id |-> s.scen, hist |-> s.hist, thist |-> s.thist, nonconv |-> s.nonconv]

\* a worker's own copy of the model for its scenario: new Flows, a new Mode
\* and a new Timer, whatever the objects of the caller's model hold
worker_copy(mdl, scen) == initialize_objects(mdl, NewObjects(mdl), scen)

\* a merge that takes the k-th slice handed over for the k-th scenario
merge_in_order(scens, finished) ==
    [id \in {scens[k] : k \in DOMAIN scens} |->
        finished[CHOOSE k \in DOMAIN scens : scens[k] = id]]

\* the merge after all workers have completed: one History, each slice
\* under the identifier of its scenario
merge(scens, finished) ==
    [id \in {scens[k] : k \in DOMAIN scens} |->
        finished[CHOOSE k \in DOMAIN finished : finished[k].id = id]]

\* the scenarios of a batch: the nominal one and a fault scenario, in the
\* order of the sample approach
BatchArgs == {<<NominalScen, scen>> : scen \in ScenArgs \ {NominalScen}}

\* run_approach(mdl, sample_approach, parallel): every scenario gets a
\* worker with its own copy of the model
RunApproach ==
    /\ batch.state = "built"
    /\ batch.runs = <<>>
    /\ \E scens \in BatchArgs, parallel \in BOOLEAN :
           batch' = [state |-> "batch", mdl |-> batch.mdl, o |-> batch.o,
                     scens |-> scens, parallel |-> parallel,
                     workers |-> [k \in DOMAIN scens |-> worker_copy(batch.mdl, scens[k])],
                     finished |-> <<>>]
    /\ call' = [op |-> "run_approach"]
    /\ UNCHANGED <<pmvars, paramvars, timervars, sim, modeobj>>

\* worker k takes its scenario one tick further; in a run that is not
\* parallel the scenarios are taken one after another.  The worker hands
\* over its slice when its scenario has reached the horizon
WorkerStep(k) ==
    /\ batch.state = "batch"
    /\ k \in DOMAIN batch.workers
    /\ batch.workers[k].pc # "done"
    /\ batch.parallel \/ \A j \in 1..(k - 1) : batch.workers[j].pc = "done"
    /\ LET s == tick(batch.workers[k])
       IN  batch' = [batch EXCEPT
                       !.workers[k] = s,
                       !.finished = IF s.pc = "done" THEN Append(@, slice_of(s)) ELSE @]
    /\ call' = [op |-> "worker"]
    /\ UNCHANGED <<pmvars, paramvars, timervars, sim, modeobj>>

\* the merge, once all workers have completed
Merge ==
    /\ batch.state = "batch"
    /\ \A k \in DOMAIN batch.workers : batch.workers[k].pc = "done"
    /\ batch' = [state |-> "merged", mdl |-> batch.mdl, o |-> batch.o,
                 scens |-> batch.scens, parallel |-> batch.parallel,
                 finished |-> batch.finished,
                 merged |-> merge(batch.scens, batch.finished)]
    /\ call' = [op |-> "merge"]
    /\ UNCHANGED <<pmvars, paramvars, timervars, sim, modeobj>>

NextRuns ==
    \/ BuildModel
    \/ RunOneFault
    \/ RunAgain
    \/ RunApproach
    \/ \E k \in 1..2 : WorkerStep(k)
    \/ Merge

SpecRuns == Init /\ [][NextRuns]_vars

\* the runs of the same scenario on one model, in the order of the calls
Runs == IF batch.state = "built" THEN batch.runs ELSE <<>>

\* C21: a scenario run twice on the same model gives the same result both
\* times, the same History of the Flows, the Mode and the Timer (or the same
\* error): the second run is not influenced by what the first has left in
\* the Flows, the Mode and the Timer of the model.
C21_SecondRunSameHistory ==
    Len(Runs) = 2 => Runs[2] = Runs[1]

\* the slice of a scenario run alone on its own copy of the model
Alone(mdl, scen) == slice_of(run_flagged(worker_copy(mdl, scen)))
\* the batch has been started, and the batch has been merged
InBatch == batch.state = "batch"
IsMerged == batch.state = "merged"
ScensOf(b) == {b.scens[k] : k \in DOMAIN b.scens}

\* C22: a batch of scenarios run concurrently gives, for every interleaving
\* and every order of completion of the workers, the merged History, keyed
\* by scenario identifier, that the scenarios give when each is run alone,
\* one after another; at every point of the batch each scenario is where its
\* own run alone would be, whatever the other workers have done.
C22_MergedAsSequential ==
    /\ IsMerged =>
           /\ DOMAIN batch.merged = ScensOf(batch)
           /\ \A id \in ScensOf(batch) : batch.merged[id] = Alone(batch.mdl, id)
    /\ InBatch =>
           \A k \in DOMAIN batch.workers :
               slice_of(run_flagged(batch.workers[k])) = Alone(batch.mdl, batch.scens[k])

\* a parallel batch has been merged whose second scenario completed first,
\* with a History that differs from the first one's
C22_Witness ==
    /\ IsMerged
    /\ batch.parallel
    /\ batch.finished[1].id = batch.scens[2]
    /\ batch.merged[batch.scens[1]].hist # batch.merged[batch.scens[2]].hist

\* the number of records of a complete History: one for each time from the
\* start to the horizon
FullLength(mdl) == Cardinality({t \in 0..MaxEnd : t % mdl.dt = 0})
\* some static phase of the recorded run has not converged
Flagged(hist) == \E i \in DOMAIN hist.converged : ~hist.converged[i]

\* C23: in a batch a scenario whose static phase fails to converge is
\* recorded with its non-convergent flag, and every scenario of the batch,
\* this one included, completes with a History up to the horizon; the same
\* scenario run directly gives its caller the error and no History.
C23_FlaggedInBatchRaisedDirect ==
    /\ IsMerged =>
           \A id \in ScensOf(batch) :
               /\ id \in DOMAIN batch.merged
               /\ Len(batch.merged[id].hist.time) = FullLength(batch.mdl)
               /\ batch.merged[id].nonconv = Flagged(batch.merged[id].hist)
    /\ \A i \in DOMAIN Runs :
           /\ Runs[i].exc = "NonConvergenceError"
                  <=> Alone(batch.mdl, Runs[i].id).nonconv
           /\ Runs[i].exc = "none" =>
                  /\ Len(Runs[i].hist.time) = FullLength(batch.mdl)
                  /\ ~Flagged(Runs[i].hist)

\* a batch has been merged in which the fault scenario is flagged
\* non-convergent and the nominal scenario has completed unflagged
C23_Witness ==
    /\ IsMerged
    /\ batch.merged[batch.scens[2]].nonconv
    /\ ~batch.merged[batch.scens[1]].nonconv
    /\ Len(batch.merged[batch.scens[1]].hist.time) = FullLength(batch.mdl)
    /\ Len(batch.merged[batch.scens[2]].hist.time) = FullLength(batch.mdl)

----------------------------------------------------------------------------
(* SimParam built from up to three phases, in any order                    *)

\* tuples of one, two or three phases with different names, each with
\* start <= end
PhaseTuples ==
    {<< <<"a", i[1], i[2]>> >> : i \in Intervals}
    \cup {<< <<"a", i[1], i[2]>>, <<"b", j[1], j[2]>> >> : i \in Intervals, j \in Intervals}
    \cup {<< <<"a", i[1], i[2]>>, <<"b", j[1], j[2]>>, <<"c", k[1], k[2]>> >> :
             i \in Intervals, j \in Intervals, k \in Intervals}

\* sp = SimParam(phases=phases, dt=dt)
SimParam_init_phases ==
    /\ obj = "none"
    /\ sp.state = "none"
    /\ \E phs \in PhaseTuples, d \in DtArgs :
           sp' = SimParam([has_phases |-> TRUE, phases |-> phs, has_times |-> FALSE,
                           times |-> <<>>, dt |-> d])
    /\ UNCHANGED <<obj, phases, modephases, dt, call, paramvars, timervars, simvars>>

NextPhases == SimParam_init_phases

SpecPhases == Init /\ [][NextPhases]_vars

\* some two of the phases share a time point
SomeOverlap(phs) == \E i, j \in DOMAIN phs : i # j /\ Overlap(phs[i], phs[j])

\* C24: for phases of different names with start <= end, given in any order,
\* the construction of a SimParam raises the 'Global phases overlap' error
\* exactly when some two phases share a time point, one interval nested in
\* another included; phases that are pairwise disjoint are accepted.
C24_RaisesIffSomeOverlap ==
    (sp.state # "none" /\ sp.kwargs.has_phases /\ sp.kwargs.phases \in PhaseTuples) =>
        /\ sp.state = "raised" <=> SomeOverlap(sp.kwargs.phases)
        /\ sp.state = "built" <=> NoOverlap(sp.kwargs.phases)

\* three phases given out of time order were refused: the third lies inside
\* the first, the second lies before both
C24_Witness ==
    /\ sp.state = "raised"
    /\ Len(sp.phases) = 3
    /\ sp.phases[1][2] < sp.phases[3][2]
    /\ sp.phases[3][3] < sp.phases[1][3]
    /\ sp.phases[2][3] < sp.phases[1][2]

----------------------------------------------------------------------------
(* nest_dict (define/base.py)                                              *)
(*                                                                         *)
(* A string is the sequence of its characters, 'a.b' is <<"a", ".", "b">>. *)
(* A dictionary is a function on its keys; the order of its items plays no *)
(* part, as the keys of the result come from a python set.  An item is     *)
(* either a value, [val |-> v], or a dictionary, [dict |-> d].             *)

\* longest key of a dictionary given to nest_dict
MaxKeyLen == 3
\* separator="."
Separator == "."
Chars == {"a", "b", Separator}
Strings == UNION {[1..n -> Chars] : n \in 0..MaxKeyLen}

Val(v) == [val |-> v]
SubDict(d) == [dict |-> d]
IsVal(x) == "val" \in DOMAIN x

\* levels=float('inf'), or a number of levels
Inf == [inf |-> TRUE, n |-> 0]
Levels(n) == [inf |-> FALSE, n |-> n]

\* h.split(separator)[0]: h up to its first separator
split_first(h) ==
    LET seps == {i \in DOMAIN h : h[i] = Separator}
    IN  IF seps = {} THEN h ELSE SubSeq(h, 1, Min(seps) - 1)

\* histkey.startswith(prefix)
startswith(histkey, prefix) ==
    Len(prefix) <= Len(histkey) /\ SubSeq(histkey, 1, Len(prefix)) = prefix

\* {histkey[len(key)+1:]: val for histkey, val in dic.items()
\*  if histkey.startswith(key+separator)}
subdict(dic, key) ==
    LET under == {histkey \in DOMAIN dic : startswith(histkey, key \o <<Separator>>)}
    IN  [k \in {SubSeq(histkey, Len(key) + 2, Len(histkey)) : histkey \in under} |->
            dic[key \o <<Separator>> \o k]]

\* nest_dict that nests one level whatever levels it is given
nest_dict_once(dic, levels) ==
    [key \in {split_first(h) : h \in DOMAIN dic} |->
        IF key \in DOMAIN dic THEN dic[key] ELSE SubDict(subdict(dic, key))]

\* nest_dict(dic, levels, separator=".")
RECURSIVE nest_dict(_, _)
nest_dict(dic, levels) ==
    LET key_options == {split_first(h) : h \in DOMAIN dic}
        lev == IF levels.inf THEN levels ELSE Levels(levels.n - 1)
    IN  [key \in key_options |->
            IF key \in DOMAIN dic THEN dic[key]
            ELSE IF lev.inf \/ lev.n > 0
                 THEN SubDict(nest_dict(subdict(dic, key), lev))
                 ELSE SubDict(subdict(dic, key))]

\* the flat dictionaries given to nest_dict: up to two keys, values 1 or 2
KeySets == {{}} \cup {{k, j} : k \in Strings, j \in Strings}
DicArgs == UNION {[K -> {Val(1), Val(2)}] : K \in KeySets}
LevelsArgs == {Inf, Levels(1)}

\* nest_dict(dic, levels)
NestDict ==
    /\ obj = "none"
    /\ call = NoCall
    /\ \E dic \in DicArgs, levels \in LevelsArgs :
           call' = [op |-> "nest_dict", dic |-> dic, levels |-> levels,
                    res |-> nest_dict(dic, levels)]
    /\ UNCHANGED <<pmvars, paramvars, timervars, simvars>>

NextNest == NestDict

SpecNest == Init /\ [][NextNest]_vars

\* 'k1.k2...kn'.split('.'): the path k1, k2, ..., kn of a key
RECURSIVE Path(_)
Path(h) ==
    IF split_first(h) = h THEN <<h>>
    ELSE <<split_first(h)>> \o Path(SubSeq(h, Len(split_first(h)) + 2, Len(h)))

\* the leaves of a nested dictionary: <<path, value>>
RECURSIVE Leaves(_)
Leaves(d) ==
    UNION {IF IsVal(d[k]) THEN {<<<<k>>, d[k].val>>}
           ELSE {<<<<k>> \o l[1], l[2]>> : l \in Leaves(d[k].dict)} : k \in DOMAIN d}

\* the entries of a flat dictionary, each with the path of its key
Entries(dic, keys) == {<<Path(k), dic[k].val>> : k \in keys}
\* key k lies under another key of the dictionary: some key followed by
\* the separator starts k
Shadowed(dic, k) == \E j \in DOMAIN dic : startswith(k, j \o <<Separator>>)

\* C26 as stated: with levels unbounded nest_dict loses no entry: the leaves
\* of the result are the entries of the input, each at the path of its key,
\* also when one key is a prefix of another.
C26_NestKeepsEveryEntry ==
    (call.op = "nest_dict" /\ call.levels.inf)
        => Leaves(call.res) = Entries(call.dic, DOMAIN call.dic)

\* C26 as amended: the leaves of the result are the entries of the input
\* whose key does not lie under another key; an entry 'a.b' is dropped
\* when 'a' is a key too.  With no key under another nothing is lost.
C26_NestKeepsUnshadowedEntries ==
    (call.op = "nest_dict" /\ call.levels.inf) =>
        /\ Leaves(call.res) =
               Entries(call.dic, {k \in DOMAIN call.dic : ~Shadowed(call.dic, k)})
        /\ (\A k \in DOMAIN call.dic : ~Shadowed(call.dic, k))
               => Leaves(call.res) = Entries(call.dic, DOMAIN call.dic)

\* {'a.a': 1, 'a.b': 2} has been nested into {'a': {'a': 1, 'b': 2}}
C26_Witness ==
    /\ call.op = "nest_dict"
    /\ call.levels.inf
    /\ DOMAIN call.dic = {<<"a", Separator, "a">>, <<"a", Separator, "b">>}
    /\ DOMAIN call.res = {<<"a">>}
    /\ ~IsVal(call.res[<<"a">>])
    /\ DOMAIN call.res[<<"a">>].dict = {<<"a">>, <<"b">>}

----------------------------------------------------------------------------
(* Properties of the modes of a Timer                                      *)

Built_timer == timer.state = "built"

C27_IncLeavesTickingOrComplete ==
    (Built_timer /\ call.op = "inc") =>
        /\ timer.time >= 0
        /\ timer.time = 0 => timer.mode = "complete"
        /\ timer.time > 0 => timer.mode = "ticking"
        /\ timer.mode \notin {"standby", "set"}

\* inc() was called on a timer set to a negative time, which is now complete
\* at 0
C27_Witness ==
    /\ Built_timer
    /\ call.op = "inc"
    /\ call.old < 0
    /\ call.was = "set"
    /\ timer.time = 0
    /\ timer.mode = "complete"

----------------------------------------------------------------------------
(* A Timer counting down: set_timer(T, tstep) followed by calls of inc()   *)

\* the largest number of inc() calls followed after one set_timer
MaxIncs == 8

\* the times T > 0 and the steps tstep < 0 a countdown is set with
CountdownTimes == 1..(MaxTimer + MaxTimer + 1)

CountdownSteps == (0 - MaxTimer - 1)..(0 - 1)

\* math.ceil(a / b) for a > 0 and b > 0
Ceil(a, b) == (a + b - 1) \div b

\* t.set_timer(T, tstep) on a timer in any state
SetCountdown ==
    /\ timer.state = "built"
    /\ \E T \in CountdownTimes, tstep \in CountdownSteps :
         /\ timer' = set_timer(timer, T, tstep, "always")
         /\ call' = [op |-> "countdown", T |-> T, tstep |-> tstep, n |-> 0]
    /\ UNCHANGED <<pmvars, paramvars, twin, simvars>>

\* t.inc() on a timer that was set, counted in call.n
IncCountdown ==
    /\ timer.state = "built"
    /\ call.op = "countdown"
    /\ call.n < MaxIncs
    /\ timer' = inc(timer, NoTstep)
    /\ call' = [call EXCEPT !.n = @ + 1]
    /\ UNCHANGED <<pmvars, paramvars, twin, simvars>>

NextCountdown ==
    \/ Timer_init
    \/ SetCountdown
    \/ IncCountdown
    \/ Reset

SpecCountdown == Init /\ [][NextCountdown]_vars

----------------------------------------------------------------------------
(* Sampling a phase and looking the samples up                             *)

\* C30: for a PhaseMap with non-overlapping phases and any dt, every instant
\* returned by get_phase_times(p) for a phase p lies within [start_p, end_p],
\* find_phase of it returns p, and the number of instants returned equals
\* calc_phase_time(p)/dt.
C30_SamplesLieInPhaseAndAreFound ==
    (/\ call.op = "get_phase_times"
     /\ Returned
     /\ call.phase \in Keys(phases)
     /\ call.phase \notin Keys(modephases)
     /\ NoOverlap(phases)) =>
        LET p == IndexOf(phases, call.phase)
            times == call.res.val
        IN  /\ \A k \in DOMAIN times :
                  /\ InDeclared(p, times[k])
                  /\ find_phase(Self, times[k], DefaultDt) = Return(call.phase)
            /\ Len(times) * dt = calc_phase_time(Self, call.phase).val

----------------------------------------------------------------------------
(* from_hist: the PhaseMap of a function from its history of modes         *)

\* the longest history of modes
MaxHist == 4

\* the modes a function records; the last one reads like a numbered phase
HistModes == {"a", "b", "a1"}

\* the mode histories of one function: modehist[i] is the mode at times[i]
ModeHists == UNION {[1..n -> HistModes] : n \in 1..MaxHist}

\* hist['time'] with a fixed step: 0, step, 2*step, ...
time_axis(n, tstep) == [i \in 1..n |-> (i - 1) * tstep]

\* OrderedSet(modehist): the modes in the order of their first occurrence
OrderedSet(modehist) ==
    LET first == {i \in DOMAIN modehist :
                     \A j \in 1..(i - 1) : modehist[j] # modehist[i]}
        inds == SortedSeq(first)
    IN  [k \in DOMAIN inds |-> modehist[inds[k]]]

\* the runs [startind, ind] the loop over modeinds closes for one mode, in
\* order: ind is the last index of a run when ind+1 is not in modeinds
mode_runs(modehist, mode) ==
    LET modeinds == {i \in DOMAIN modehist : modehist[i] = mode}
        lasts == SortedSeq({i \in modeinds : i + 1 \notin modeinds})
        firsts == SortedSeq({i \in modeinds : i - 1 \notin modeinds})
    IN  [k \in DOMAIN lasts |-> <<firsts[k], lasts[k]>>]

\* phaseid: mode for the first run, mode+str(phasenum) for the later ones
phaseid(mode, phasenum) ==
    IF phasenum = 0 THEN mode ELSE mode \o ToString(phasenum)

\* d[key] = value on a dictionary kept as a sequence of <<key, start, end>>
dict_set(d, item) ==
    IF item[1] \in Keys(d)
    THEN [d EXCEPT ![IndexOf(d, item[1])] = item]
    ELSE Append(d, item)

\* the assignments phases_unsorted[phaseid] = [times[startind], times[ind]]
\* of one mode, run by run
RECURSIVE set_runs(_, _, _, _, _)
set_runs(d, mode, runs, k, times) ==
    IF k > Len(runs) THEN d
    ELSE set_runs(dict_set(d, <<phaseid(mode, k - 1), times[runs[k][1]],
                                times[runs[k][2]]>>),
                  mode, runs, k + 1, times)

\* the loop over the modes that fills phases_unsorted
RECURSIVE phases_unsorted(_, _, _, _, _)
phases_unsorted(d, modes, m, modehist, times) ==
    IF m > Len(modes) THEN d
    ELSE phases_unsorted(set_runs(d, modes[m], mode_runs(modehist, modes[m]), 1, times),
                         modes, m + 1, modehist, times)

\* from_hist(hist) for one function, fxn_modephases='all': the fields of
\* PhaseMap(phases=phases, modephases=modephases), with the default dt
from_hist(times, modehist) ==
    LET modes == OrderedSet(modehist)
        unsorted == phases_unsorted(<<>>, modes, 1, modehist, times)
    IN  [phases |-> SortSeq(unsorted, LAMBDA x, y : x[2] < y[2]),
         modephases |->
             [m \in DOMAIN modes |->
                 <<modes[m],
                   {phaseid(modes[m], k - 1) :
                        k \in DOMAIN mode_runs(modehist, modes[m])}>>],
         dt |-> DefaultDt]

\* phasemaps = from_hist(hist) on a history recorded with a fixed step
FromHist ==
    /\ obj = "none"
    /\ sp.state = "none"
    /\ param.state = "none"
    /\ timer.state = "none"
    /\ \E modehist \in ModeHists, tstep \in DtArgs :
         LET times == time_axis(Len(modehist), tstep)
             pm == from_hist(times, modehist)
         IN  /\ phases' = pm.phases
             /\ modephases' = pm.modephases
             /\ dt' = pm.dt
             /\ call' = [op |-> "from_hist", times |-> times, modehist |-> modehist]
    /\ obj' = "PhaseMap"
    /\ UNCHANGED <<sp, paramvars, timervars, simvars>>

\* phasemaps[fxn].find_base_phase(times[i])
FindBasePhase(i) ==
    /\ obj = "PhaseMap"
    /\ call.op = "from_hist"
    /\ i \in DOMAIN call.times
    /\ call' = [op |-> "find_base_phase", times |-> call.times,
                modehist |-> call.modehist, i |-> i,
                res |-> find_base_phase(Self, call.times[i])]
    /\ UNCHANGED <<pmvars, paramvars, timervars, simvars>>

NextHist ==
    \/ FromHist
    \/ \E i \in 1..MaxHist : FindBasePhase(i)

SpecHist == Init /\ [][NextHist]_vars

\* C29: the PhaseMap from_hist builds from a history recorded with any fixed
\* step has pairwise disjoint phase intervals, every recorded time lies in
\* exactly one of them, and find_base_phase(times[i]) is the mode recorded
\* at index i.
C29_TimesMapBackToModes ==
    call.op = "find_base_phase" =>
        /\ NoOverlap(phases)
        /\ Cardinality({p \in DOMAIN phases : InDeclared(p, call.times[call.i])}) = 1
        /\ call.res = Return(call.modehist[call.i])

====
